---- MODULE Spec2Model ----
(***************************************************************************)
(* A model of the sand-sim sandbox engine (src/src/sandbox.c, the           *)
(* struct Sandbox version): the tile codec, the classification tables, the  *)
(* movement and reaction algorithms and the per-frame scan of               *)
(* process_sandbox, together with the placement operations declared in     *)
(* src/src/sandbox.h.                                                       *)
(*                                                                          *)
(* One process_sandbox call is modelled as BeginPass, one VisitCell step    *)
(* per cell of the row-major scan (the whole loop body), and EndPass (the   *)
(* lifetime increment).  The program is single threaded, so the placement   *)
(* operations only run between passes.                                      *)
(***************************************************************************)
EXTENDS Integers, Sequences, FiniteSets, TLC

\* ----- bounds of the model -----

\* Largest sandbox dimensions create_sandbox is called with.
MaxWidth == 3
MaxHeight == 3
\* Largest number of cells (width * height) of a created sandbox.
MaxCells == 4
\* Largest number of non-AIR tiles the placement operations build up.
MaxTiles == 3
\* Largest lifetime the sandbox reaches (number of passes run).
MaxLifetime == 3
\* Largest lifetime at which the input layer still alters tiles.
MaxPlaceTime == 1
\* Largest value rand() returns in the model (RAND_MAX scaled down).
RandMax == 4
\* Largest lifetime the codec operations are applied with.
MaxCodecTime == 5

\* ----- enum tile_type (sandbox.h) -----

AIR == 0
SAND == 1
WATER == 2
WOOD == 3
STEAM == 4
FIRE == 5
NUM_TILE_TYPES == 6

TileTypes == AIR .. (NUM_TILE_TYPES - 1)
Bytes == 0 .. 255

\* Values rand() can return.
RandVals == 0 .. RandMax

\* "No swap target": what a movement step yields when it does not move.
NoCell == << -1, -1 >>

VARIABLES
    width,        \* sandbox->width
    height,       \* sandbox->height
    lifetime,     \* sandbox->lifetime
    grid,         \* sandbox->grid, a function from <<row, col>> to a byte
    pc,           \* "idle" between passes, "scan" inside process_sandbox
    pos,          \* row-major index of the next cell of the scan
    handled,      \* ghost: cells whose tile went through the pipeline this pass
    fresh,        \* ghost: cells whose tile was made by create_tile at this lifetime
    start,        \* ghost: the grid when the current (or last) pass began
    placed,       \* ghost: the placement operations that took effect so far
    lastOp,       \* ghost: the operation that produced this state
    lastEffects,  \* ghost: what the last operation did
    ct            \* the codec operations' argument and result

vars == << width, height, lifetime, grid, pc, pos, handled, fresh, start,
           placed, lastOp, lastEffects, ct >>

\* ----- tile codec -----

\* A type read that takes the high four bits.
get_tile_type_high_bits(tile) == tile \div 16

\* A type read that does not mask the flag bit away.
get_tile_type_unmasked(tile) == tile

\* enum tile_type type_id = 0x0f & tile
get_tile_type(tile) == tile % 16

\* A parity that ignores the time.
get_time_parity_zero(current_time) == 0

\* current_time & 1
get_time_parity(current_time) == current_time % 2

\* tile >> 7
get_updated_flag(tile) == tile \div 128

\* An update test that never reports a tile as updated.
is_tile_updated_never(tile, current_time) == FALSE

is_tile_updated(tile, current_time) ==
    get_updated_flag(tile) = get_time_parity(current_time)

\* A set_tile_updated that keeps the type bits only and drops bits 4-6.
set_tile_updated_type_bits_only(tile, current_time) ==
    (tile % 16) + 128 * get_time_parity(current_time)

\* A set_tile_updated that always clears the flag.
set_tile_updated_clear(tile, current_time) == tile % 128

\* *tile &= 127 when the parity is 0, *tile |= 128 otherwise
set_tile_updated(tile, current_time) ==
    IF get_time_parity(current_time) = 0
    THEN tile % 128
    ELSE (tile % 128) + 128

\* A create_tile that syncs the new tile to the parity of the next lifetime.
create_tile_unsynced(current_time, new_type) ==
    set_tile_updated(new_type, current_time + 1)

\* A create_tile that sets the reserved bit 4 of the new tile.
create_tile_reserved_bit(current_time, new_type) ==
    set_tile_updated(new_type + 16, current_time)

create_tile(current_time, new_type) ==
    set_tile_updated(new_type, current_time)

\* An emptiness test that compares the whole byte with AIR.
_tile_is_empty_whole_byte(tile) == tile = AIR

_tile_is_empty(tile) == get_tile_type(tile) = AIR

_are_tiles_same_type(tile, other_tile) ==
    get_tile_type(tile) = get_tile_type(other_tile)

\* ----- classification tables -----

\* Flammability in percent (0.75 for WOOD, 0.0 for every other type).
_tile_flammability(tile) ==
    CASE get_tile_type(tile) = AIR -> 0
      [] get_tile_type(tile) = SAND -> 0
      [] get_tile_type(tile) = WATER -> 0
      [] get_tile_type(tile) = WOOD -> 75
      [] get_tile_type(tile) = STEAM -> 0
      [] get_tile_type(tile) = FIRE -> 0
      [] OTHER -> 0

_tile_has_gravity(tile) ==
    CASE get_tile_type(tile) = AIR -> FALSE
      [] get_tile_type(tile) = SAND -> TRUE
      [] get_tile_type(tile) = WATER -> TRUE
      [] get_tile_type(tile) = WOOD -> FALSE
      [] get_tile_type(tile) = STEAM -> FALSE
      [] get_tile_type(tile) = FIRE -> FALSE
      [] OTHER -> FALSE

_tile_is_solid(tile) ==
    CASE get_tile_type(tile) = AIR -> FALSE
      [] get_tile_type(tile) = SAND -> TRUE
      [] get_tile_type(tile) = WATER -> FALSE
      [] get_tile_type(tile) = WOOD -> TRUE
      [] get_tile_type(tile) = STEAM -> FALSE
      [] get_tile_type(tile) = FIRE -> FALSE
      [] OTHER -> FALSE

_tile_is_liquid(tile) ==
    CASE get_tile_type(tile) = AIR -> FALSE
      [] get_tile_type(tile) = SAND -> FALSE
      [] get_tile_type(tile) = WATER -> TRUE
      [] get_tile_type(tile) = WOOD -> FALSE
      [] get_tile_type(tile) = STEAM -> FALSE
      [] get_tile_type(tile) = FIRE -> FALSE
      [] OTHER -> FALSE

\* A gas table that leaves FIRE out.
_tile_is_gas_steam_only(tile) == get_tile_type(tile) = STEAM

_tile_is_gas(tile) ==
    CASE get_tile_type(tile) = AIR -> FALSE
      [] get_tile_type(tile) = SAND -> FALSE
      [] get_tile_type(tile) = WATER -> FALSE
      [] get_tile_type(tile) = WOOD -> FALSE
      [] get_tile_type(tile) = STEAM -> TRUE
      [] get_tile_type(tile) = FIRE -> TRUE
      [] OTHER -> FALSE

_tile_dissolves(tile) == FALSE

_tile_is_incendiary(tile) ==
    CASE get_tile_type(tile) = AIR -> FALSE
      [] get_tile_type(tile) = SAND -> FALSE
      [] get_tile_type(tile) = WATER -> FALSE
      [] get_tile_type(tile) = WOOD -> FALSE
      [] get_tile_type(tile) = STEAM -> FALSE
      [] get_tile_type(tile) = FIRE -> TRUE
      [] OTHER -> FALSE

\* enum lifespan_duration, the index into survival_chances.
SHORT == 0
AVERAGE == 1
LONG == 2
PERMANENT == 3

\* survival_chances[] = {0.50, 0.87, 0.95, 1.0}, in percent, indexed from 0.
survival_chances(lifespan) == << 50, 87, 95, 100 >>[lifespan + 1]

\* A lifespan table that gives every type the lifespan of STEAM.
get_tile_lifespan_all_long(tile) == LONG

get_tile_lifespan(tile) ==
    CASE get_tile_type(tile) = AIR -> PERMANENT
      [] get_tile_type(tile) = SAND -> PERMANENT
      [] get_tile_type(tile) = WATER -> PERMANENT
      [] get_tile_type(tile) = WOOD -> PERMANENT
      [] get_tile_type(tile) = STEAM -> LONG
      [] get_tile_type(tile) = FIRE -> AVERAGE
      [] OTHER -> PERMANENT

\* ----- random helpers: rv is the value rand() returned -----

\* min + (rand() % (max + 1 - min))
randint(min, max, rv) == min + (rv % (max + 1 - min))

\* (float) rand() / (float) RAND_MAX > 0.5
_flip_coin(rv) == 2 * rv > RandMax

\* A PERMANENT tile survives without a draw; otherwise
\* rand() / RAND_MAX <= survival_chances[lifespan].
_roll_should_tile_survive(tile, rv) ==
    IF get_tile_lifespan(tile) = PERMANENT
    THEN TRUE
    ELSE 100 * rv <= survival_chances(get_tile_lifespan(tile)) * RandMax

\* ----- grid helpers -----

\* The one element of a singleton set; The({e(x) : x \in {d}}) evaluates d once.
The(S) == CHOOSE x \in S : TRUE

Cells(h, w) == (0 .. (h - 1)) \X (0 .. (w - 1))

\* A swap that copies the first tile over the second and leaves the first.
_swap_tiles_copy(row_one, col_one, row_two, col_two, g) ==
    [g EXCEPT ![<< row_two, col_two >>] = g[<< row_one, col_one >>]]

_swap_tiles(row_one, col_one, row_two, col_two, g) ==
    [g EXCEPT ![<< row_one, col_one >>] = g[<< row_two, col_two >>],
              ![<< row_two, col_two >>] = g[<< row_one, col_one >>]]

\* The swap a movement function performs once it has settled on the target t.
swap_to(g, row, col, t) ==
    IF t = NoCell THEN g ELSE _swap_tiles(row, col, t[1], t[2], g)

\* A search area of the four diagonal neighbours.
search_area_indices_diagonal(row, col) ==
    << << row - 1, col - 1 >>, << row - 1, col + 1 >>,
       << row + 1, col + 1 >>, << row + 1, col - 1 >> >>

\* The four cardinal neighbours in the order the searches visit them:
\* above, right, below, left.
search_area_indices(row, col) ==
    << << row - 1, col >>, << row, col + 1 >>, << row + 1, col >>, << row, col - 1 >> >>

\* The neighbour is skipped when the search leaves the grid.
search_oob(h, w, p) ==
    p[1] < 0 \/ p[1] = h \/ p[2] < 0 \/ p[2] = w

\* A burn roll that does not search the neighbours for an incendiary tile.
_roll_should_tile_burn_no_search(g, h, w, row, col, rv) ==
    IF _tile_flammability(g[<< row, col >>]) = 0
    THEN FALSE
    ELSE 100 * rv <= _tile_flammability(g[<< row, col >>]) * RandMax

_roll_should_tile_burn(g, h, w, row, col, rv) ==
    LET burn_chance == _tile_flammability(g[<< row, col >>])
        area == search_area_indices(row, col)
        is_next_to_incendiary ==
            \E i \in 1 .. 4 :
                /\ ~search_oob(h, w, area[i])
                /\ _tile_is_incendiary(g[area[i]])
    IN  IF burn_chance = 0
        THEN FALSE
        ELSE IF ~is_next_to_incendiary
             THEN FALSE
             ELSE 100 * rv <= burn_chance * RandMax

\* ----- movement and reaction algorithms -----
\* Each movement function performs at most one _swap_tiles call between the
\* source cell and a target cell.  The *_target operators follow the
\* function's control flow to the target of that call (NoCell when the
\* function returns without swapping); do_* applies the swap.

\* A sink test that leaves out the comparison of the two tiles' types.
_can_sink_any_liquid(g, h, w, row, col, target_row, target_col) ==
    IF target_row = h \/ target_col = -1 \/ target_col = w
    THEN FALSE
    ELSE /\ _tile_is_liquid(g[<< target_row, target_col >>])
         /\ ~_tile_dissolves(g[<< row, col >>])

_can_sink(g, h, w, row, col, target_row, target_col) ==
    IF target_row = h \/ target_col = -1 \/ target_col = w
    THEN FALSE
    ELSE /\ _tile_is_liquid(g[<< target_row, target_col >>])
         /\ ~_are_tiles_same_type(g[<< row, col >>], g[<< target_row, target_col >>])
         /\ ~_tile_dissolves(g[<< row, col >>])

\* A lift test that accepts every in-bounds target, solid ones included.
_can_lift_any_tile(g, h, w, row, col, target_row, target_col) ==
    ~(target_row = -1 \/ target_col = -1 \/ target_col = w)

\* A lift test that lets a gas pass through a liquid in its own row.
_can_lift_through_liquid(g, h, w, row, col, target_row, target_col) ==
    IF target_row = -1 \/ target_col = -1 \/ target_col = w
    THEN FALSE
    ELSE \/ _tile_is_empty(g[<< target_row, target_col >>])
         \/ _tile_is_liquid(g[<< target_row, target_col >>])
         \/ (_tile_is_gas(g[<< target_row, target_col >>])
             /\ ~_are_tiles_same_type(g[<< row, col >>], g[<< target_row, target_col >>]))

_can_lift(g, h, w, row, col, target_row, target_col) ==
    IF target_row = -1 \/ target_col = -1 \/ target_col = w
    THEN FALSE
    ELSE LET source_tile == g[<< row, col >>]
             target_tile == g[<< target_row, target_col >>]
             is_left_or_right == (target_col = col - 1) \/ (target_col = col + 1)
             is_parallel_horizontal == target_row = row /\ is_left_or_right
         IN  IF _tile_is_liquid(target_tile) /\ is_parallel_horizontal
             THEN FALSE
             ELSE \/ _tile_is_empty(target_tile)
                  \/ _tile_is_liquid(target_tile)
                  \/ (_tile_is_gas(target_tile)
                      /\ ~_are_tiles_same_type(source_tile, target_tile))

\* A gravity step that finds no cell to move to.
gravity_target_never(g, h, w, row, col, rv) == NoCell

gravity_target(g, h, w, row, col, rv) ==
    LET next_row == row + 1
        left_col == col - 1
        right_col == col + 1
    IN  IF next_row = h
        THEN NoCell
        ELSE IF _tile_is_empty(g[<< next_row, col >>])
                \/ _can_sink(g, h, w, row, col, next_row, col)
        THEN << next_row, col >>
        ELSE LET is_wall_on_left ==
                     left_col = -1 \/ _tile_is_solid(g[<< row, left_col >>])
                 is_wall_on_right ==
                     right_col = w \/ _tile_is_solid(g[<< row, right_col >>])
                 can_sink_bottomleft == _can_sink(g, h, w, row, col, next_row, left_col)
                 can_sink_bottomright == _can_sink(g, h, w, row, col, next_row, right_col)
                 can_slide_bottomleft ==
                     ~is_wall_on_left /\ _tile_is_empty(g[<< next_row, left_col >>])
                 can_slide_bottomright ==
                     ~is_wall_on_right /\ _tile_is_empty(g[<< next_row, right_col >>])
             IN  IF is_wall_on_left /\ is_wall_on_right
                 THEN NoCell
                 ELSE IF (can_slide_bottomleft /\ can_slide_bottomright)
                         \/ (can_sink_bottomleft /\ can_sink_bottomright)
                 THEN IF _flip_coin(rv)
                      THEN << next_row, left_col >>
                      ELSE << next_row, right_col >>
                 ELSE IF can_slide_bottomleft \/ can_sink_bottomleft
                 THEN << next_row, left_col >>
                 ELSE IF can_slide_bottomright \/ can_sink_bottomright
                 THEN << next_row, right_col >>
                 ELSE NoCell

do_gravity(g, h, w, row, col, rv) ==
    The({swap_to(g, row, col, t) : t \in {gravity_target(g, h, w, row, col, rv)}})

_slide_left_or_right_target(g, w, row, col, rv) ==
    LET left_col == col - 1
        right_col == col + 1
        can_slide_left == left_col # -1 /\ _tile_is_empty(g[<< row, left_col >>])
        can_slide_right == right_col # w /\ _tile_is_empty(g[<< row, right_col >>])
    IN  IF can_slide_left /\ can_slide_right
        THEN IF _flip_coin(rv) THEN << row, left_col >> ELSE << row, right_col >>
        ELSE IF can_slide_left
        THEN << row, left_col >>
        ELSE IF can_slide_right
        THEN << row, right_col >>
        ELSE NoCell

\* A flow that does not count the bottom edge as solid footing.
liquid_flow_target_no_floor(g, h, w, row, col, rv) ==
    IF row + 1 = h
    THEN NoCell
    ELSE IF ~_tile_is_solid(g[<< row + 1, col >>])
            /\ ~_tile_is_liquid(g[<< row + 1, col >>])
    THEN NoCell
    ELSE _slide_left_or_right_target(g, w, row, col, rv)

liquid_flow_target(g, h, w, row, col, rv) ==
    LET next_row == row + 1
        on_solid_ground == next_row = h \/ _tile_is_solid(g[<< next_row, col >>])
    IN  IF ~on_solid_ground /\ ~_tile_is_liquid(g[<< next_row, col >>])
        THEN NoCell
        ELSE _slide_left_or_right_target(g, w, row, col, rv)

do_liquid_flow(g, h, w, row, col, rv) ==
    The({swap_to(g, row, col, t) : t \in {liquid_flow_target(g, h, w, row, col, rv)}})

\* movement_options[5][2]: up, up-left, up-right, left, right.
movement_options(row, col) ==
    << << row - 1, col >>, << row - 1, col - 1 >>, << row - 1, col + 1 >>,
       << row, col - 1 >>, << row, col + 1 >> >>

\* target_indices: the options _can_lift accepts, in the order of movement_options.
RECURSIVE target_indices(_, _, _, _, _, _)
target_indices(g, h, w, row, col, i) ==
    IF i > 5
    THEN << >>
    ELSE LET opt == movement_options(row, col)[i]
             rest == target_indices(g, h, w, row, col, i + 1)
         IN  IF _can_lift(g, h, w, row, col, opt[1], opt[2])
             THEN << opt >> \o rest
             ELSE rest

pick_target(targets, rv) ==
    IF Len(targets) = 0
    THEN NoCell
    ELSE targets[randint(0, Len(targets) - 1, rv) + 1]

lift_target(g, h, w, row, col, rv) ==
    The({pick_target(targets, rv) : targets \in {target_indices(g, h, w, row, col, 1)}})

do_lift(g, h, w, row, col, rv) ==
    The({swap_to(g, row, col, t) : t \in {lift_target(g, h, w, row, col, rv)}})

\* A search for WATER that also looks at the four diagonal neighbours.
is_next_to_water_with_diagonals(g, h, w, row, col) ==
    \E dr \in {-1, 0, 1}, dc \in {-1, 0, 1} :
        /\ << dr, dc >> # << 0, 0 >>
        /\ << row + dr, col + dc >> \in DOMAIN g
        /\ get_tile_type(g[<< row + dr, col + dc >>]) = WATER

\* A search for WATER that looks only at the cell above.
is_next_to_water_above_only(g, h, w, row, col) ==
    /\ row - 1 >= 0
    /\ get_tile_type(g[<< row - 1, col >>]) = WATER

is_next_to_water(g, h, w, row, col) ==
    LET area == search_area_indices(row, col)
    IN  \E i \in 1 .. 4 :
            /\ ~search_oob(h, w, area[i])
            /\ get_tile_type(g[area[i]]) = WATER

do_extinguish(g, h, w, current_time, row, col) ==
    IF ~is_next_to_water(g, h, w, row, col)
    THEN g
    ELSE [g EXCEPT ![<< row, col >>] = create_tile(current_time, STEAM)]

\* ----- the scan of process_sandbox -----

\* The scan without the set_tile_updated call that precedes the movement steps.
mark_before_move_skipped(g, current_time, row, col) == g

\* set_tile_updated(&grid[row][col], sandbox->lifetime) before the movement steps.
mark_before_move(g, current_time, row, col) ==
    [g EXCEPT ![<< row, col >>] = set_tile_updated(g[<< row, col >>], current_time)]

\* The scan without the set_tile_updated call that follows the movement steps.
mark_after_move_skipped(g, current_time, row, col) == g

\* set_tile_updated(&grid[row][col], sandbox->lifetime) after the movement steps.
mark_after_move(g, current_time, row, col) ==
    [g EXCEPT ![<< row, col >>] = set_tile_updated(g[<< row, col >>], current_time)]

\* A survival failure that leaves an empty tile with its flag bit set.
kill_tile_flagged(g, row, col) == [g EXCEPT ![<< row, col >>] = 128]

\* grid[row][col] = AIR after a failed survival roll.
kill_tile(g, row, col) == [g EXCEPT ![<< row, col >>] = AIR]

\* grid[row][col] = create_tile(sandbox, FIRE) after a successful burn roll.
burn_tile(g, current_time, row, col) ==
    [g EXCEPT ![<< row, col >>] = create_tile(current_time, FIRE)]

\* Ghost bookkeeping: a set of cells follows the tiles through a swap.
SwapCells(S, a, b) ==
    IF b = NoCell
    THEN S
    ELSE (S \ {a, b}) \cup (IF a \in S THEN {b} ELSE {})
                     \cup (IF b \in S THEN {a} ELSE {})

\* The steps of the scan loop body after the burn check.  Each takes and
\* returns the record st = [grid, handled, fresh, effects]: the grid, the
\* ghost sets and the steps that took effect so far.  current_tile is the
\* copy of grid[row][col] the loop made before any step ran.

\* set_tile_updated, and the ghost note that the tile went through the pipeline.
step_mark(st, current_time, row, col) ==
    LET p == << row, col >>
    IN  [st EXCEPT !.grid = mark_before_move(st.grid, current_time, row, col),
                   !.handled = st.handled \cup {p},
                   !.effects = (IF p \in st.handled THEN << "rerun" >> ELSE << >>)
                               \o (IF p \in st.fresh THEN << "fresh" >> ELSE << >>)]

\* if (get_tile_type(current_tile) == FIRE) do_extinguish(sandbox, row, col);
step_extinguish(st, h, w, current_time, row, col, current_tile) ==
    IF get_tile_type(current_tile) = FIRE /\ is_next_to_water(st.grid, h, w, row, col)
    THEN [st EXCEPT !.grid = do_extinguish(st.grid, h, w, current_time, row, col),
                    !.fresh = st.fresh \cup {<< row, col >>},
                    !.effects = st.effects \o << "extinguish" >>]
    ELSE st

\* The ghost part of a movement step whose swap target is t.
moved(st, row, col, t, name) ==
    IF t = NoCell
    THEN st
    ELSE [st EXCEPT !.handled = SwapCells(st.handled, << row, col >>, t),
                    !.fresh = SwapCells(st.fresh, << row, col >>, t),
                    !.effects = st.effects
                        \o (IF << row, col >> \in st.fresh /\ "fresh" \notin
                               {st.effects[i] : i \in 1 .. Len(st.effects)}
                            THEN << "fresh" >> ELSE << >>)
                        \o << name >>]

\* if (_tile_has_gravity(current_tile)) do_gravity(sandbox, row, col);
step_gravity(st, h, w, row, col, current_tile, rv) ==
    IF _tile_has_gravity(current_tile)
    THEN The({[moved(st, row, col, t, "gravity")
                  EXCEPT !.grid = do_gravity(st.grid, h, w, row, col, rv)] :
              t \in {gravity_target(st.grid, h, w, row, col, rv)}})
    ELSE st

\* if (_tile_is_liquid(current_tile)) do_liquid_flow(sandbox, row, col);
step_flow(st, h, w, row, col, current_tile, rv) ==
    IF _tile_is_liquid(current_tile)
    THEN The({[moved(st, row, col, t, "flow")
                  EXCEPT !.grid = do_liquid_flow(st.grid, h, w, row, col, rv)] :
              t \in {liquid_flow_target(st.grid, h, w, row, col, rv)}})
    ELSE st

\* if (_tile_is_gas(current_tile)) do_lift(sandbox, row, col);
step_lift(st, h, w, row, col, current_tile, rv) ==
    IF _tile_is_gas(current_tile)
    THEN The({[moved(st, row, col, t, "lift")
                  EXCEPT !.grid = do_lift(st.grid, h, w, row, col, rv)] :
              t \in {lift_target(st.grid, h, w, row, col, rv)}})
    ELSE st

\* set_tile_updated on whatever tile the cell holds after the movement steps.
step_remark(st, current_time, row, col) ==
    [st EXCEPT !.grid = mark_after_move(st.grid, current_time, row, col)]

\* The body of the scan loop for the cell (row, col).  rs, rb, rg, rf and rl
\* are the values rand() returns to the survival roll, the burn roll, the
\* coin of do_gravity, the coin of _slide_left_or_right and randint of
\* do_lift; hd and fr are the ghost sets before the visit.
process_cell(g, h, w, current_time, row, col, rs, rb, rg, rf, rl, hd, fr) ==
    LET p == << row, col >>
        current_tile == g[p]
        st0 == [grid |-> g, handled |-> hd, fresh |-> fr, effects |-> << >>]
        seen == (IF p \in hd THEN << "rerun" >> ELSE << >>)
                \o (IF p \in fr THEN << "fresh" >> ELSE << >>)
    IN  IF _tile_is_empty(current_tile)
        THEN [st0 EXCEPT !.effects = << "empty" >>]
        ELSE IF is_tile_updated(current_tile, current_time)
        THEN [st0 EXCEPT !.effects = << "updated" >>]
        ELSE IF ~_roll_should_tile_survive(current_tile, rs)
        THEN [grid |-> kill_tile(g, row, col), handled |-> hd \ {p},
              fresh |-> fr \ {p}, effects |-> seen \o << "die" >>]
        ELSE IF _roll_should_tile_burn(g, h, w, row, col, rb)
        THEN [grid |-> burn_tile(g, current_time, row, col), handled |-> hd \cup {p},
              fresh |-> fr \cup {p}, effects |-> seen \o << "burn" >>]
        ELSE The(
            {step_remark(s5, current_time, row, col) : s5 \in
            {step_lift(s4, h, w, row, col, current_tile, rl) : s4 \in
            {step_flow(s3, h, w, row, col, current_tile, rf) : s3 \in
            {step_gravity(s2, h, w, row, col, current_tile, rg) : s2 \in
            {step_extinguish(s1, h, w, current_time, row, col, current_tile) : s1 \in
            {step_mark(st0, current_time, row, col)}}}}}})

\* The draws a visit can consume, by the type of the visited tile.
Draws(needed) == IF needed THEN RandVals ELSE {0}

\* ----- placement operations (declared in sandbox.h) -----

is_coord_oob(h, w, coords) ==
    coords[1] < 0 \/ coords[1] >= h \/ coords[2] < 0 \/ coords[2] >= w

is_tile_empty(tile) == get_tile_type(tile) = AIR

\* A place_tile that clamps the coordinate into the grid instead of
\* rejecting it.
place_tile_clamped(g, h, w, current_time, coords, type) ==
    LET clamp(x, hi) == IF x < 0 THEN 0 ELSE IF x > hi THEN hi ELSE x
        c == << clamp(coords[1], h - 1), clamp(coords[2], w - 1) >>
    IN  IF ~is_tile_empty(g[c])
        THEN g
        ELSE [g EXCEPT ![c] = create_tile(current_time, type)]

place_tile(g, h, w, current_time, coords, type) ==
    IF is_coord_oob(h, w, coords)
    THEN g
    ELSE IF ~is_tile_empty(g[coords])
    THEN g
    ELSE [g EXCEPT ![coords] = create_tile(current_time, type)]

\* A delete_tile that empties the whole row of the coordinate.
delete_tile_whole_row(g, h, w, coords) ==
    IF is_coord_oob(h, w, coords)
    THEN g
    ELSE [c \in DOMAIN g |-> IF c[1] = coords[1] THEN AIR ELSE g[c]]

delete_tile(g, h, w, coords) ==
    IF is_coord_oob(h, w, coords)
    THEN g
    ELSE IF is_tile_empty(g[coords])
    THEN g
    ELSE [g EXCEPT ![coords] = AIR]

replace_tile(g, h, w, current_time, coords, type) ==
    IF is_coord_oob(h, w, coords)
    THEN g
    ELSE IF get_tile_type(g[coords]) = type
    THEN g
    ELSE [g EXCEPT ![coords] = create_tile(current_time, type)]

\* ----- state machine -----

CountTiles(g) == Cardinality({c \in DOMAIN g : ~_tile_is_empty(g[c])})

CountType(g, t) == Cardinality({c \in DOMAIN g : get_tile_type(g[c]) = t})

\* The points the input layer passes: every cell, and one point beyond each
\* edge of the grid.
Points(h, w) ==
    Cells(h, w) \cup {<< -1, 0 >>, << h, 0 >>, << 0, -1 >>, << 0, w >>}

\* The types the input layer can select (never AIR).
PlaceTypes == SAND .. (NUM_TILE_TYPES - 1)

CtNone == [op |-> "none", type |-> AIR, in |-> 0, time |-> 0, tile |-> 0]

\* create_sandbox(width, height): every cell AIR (calloc), lifetime 0.
Init ==
    /\ width \in 1 .. MaxWidth
    /\ height \in 1 .. MaxHeight
    /\ width * height <= MaxCells
    /\ lifetime = 0
    /\ grid = [c \in Cells(height, width) |-> AIR]
    /\ pc = "idle"
    /\ pos = 0
    /\ handled = {}
    /\ fresh = {}
    /\ start = grid
    /\ placed = << >>
    /\ lastOp = "create"
    /\ lastEffects = << >>
    /\ ct = CtNone

\* Ghost: remember a placement that took effect on the sandbox as created
\* (nothing placed yet, no pass run yet); after any other one only "many".
Record(op, coords, type) ==
    IF placed = << >> /\ lifetime = 0
    THEN << [op |-> op, cell |-> coords, type |-> type] >>
    ELSE << [op |-> "many", cell |-> NoCell, type |-> AIR] >>

Placement(op, g, coords, type) ==
    /\ pc = "idle"
    /\ lifetime <= MaxPlaceTime
    /\ CountTiles(g) <= MaxTiles
    /\ grid' = g
    /\ start' = g
    /\ lastOp' = IF is_coord_oob(height, width, coords) THEN "oob"
                 ELSE IF g # grid THEN "placed"
                 ELSE "noop"
    /\ lastEffects' = << >>
    /\ placed' = IF g # grid THEN Record(op, coords, type) ELSE placed
    /\ fresh' = IF g = grid THEN fresh
                ELSE IF op = "delete" THEN fresh \ {coords}
                ELSE fresh \cup {coords}
    /\ UNCHANGED << width, height, lifetime, pc, pos, handled, ct >>

PlaceTile ==
    \E coords \in Points(height, width), type \in PlaceTypes :
        \E g \in {place_tile(grid, height, width, lifetime, coords, type)} :
            Placement("place", g, coords, type)

DeleteTile ==
    \E coords \in Points(height, width) :
        \E g \in {delete_tile(grid, height, width, coords)} :
            Placement("delete", g, coords, AIR)

ReplaceTile ==
    \E coords \in Points(height, width), type \in PlaceTypes :
        \E g \in {replace_tile(grid, height, width, lifetime, coords, type)} :
            Placement("replace", g, coords, type)

\* process_sandbox is entered: the scan starts at row 0, column 0.
BeginPass ==
    /\ pc = "idle"
    /\ lifetime < MaxLifetime
    /\ pc' = "scan"
    /\ pos' = 0
    /\ handled' = {}
    /\ start' = grid
    /\ lastOp' = "begin"
    /\ lastEffects' = << >>
    /\ UNCHANGED << width, height, lifetime, grid, fresh, placed, ct >>

\* One iteration of the scan loop.
VisitCell ==
    /\ pc = "scan"
    /\ pos < width * height
    /\ LET row == pos \div width
           col == pos % width
           tile == grid[<< row, col >>]
           live == ~_tile_is_empty(tile) /\ ~is_tile_updated(tile, lifetime)
       IN  \E rs \in Draws(live /\ get_tile_lifespan(tile) # PERMANENT),
              rb \in Draws(live /\ _tile_flammability(tile) # 0),
              rg \in Draws(live /\ _tile_has_gravity(tile)),
              rf \in Draws(live /\ _tile_is_liquid(tile)),
              rl \in Draws(live /\ _tile_is_gas(tile)) :
               \E res \in {process_cell(grid, height, width, lifetime, row, col,
                                          rs, rb, rg, rf, rl, handled, fresh)} :
                   /\ grid' = res.grid
                   /\ handled' = res.handled
                   /\ fresh' = res.fresh
                   /\ lastEffects' = res.effects
    /\ pos' = pos + 1
    /\ lastOp' = "visit"
    /\ UNCHANGED << width, height, lifetime, pc, start, placed, ct >>

\* The end of a scan that leaves the lifetime as it was.
EndPass_no_increment ==
    /\ pc = "scan"
    /\ pos = width * height
    /\ pc' = "idle"
    /\ pos' = 0
    /\ handled' = {}
    /\ fresh' = {}
    /\ lastOp' = "pass"
    /\ lastEffects' = << >>
    /\ UNCHANGED << width, height, lifetime, grid, start, placed, ct >>

\* The scan is over: sandbox->lifetime++.
EndPass ==
    /\ pc = "scan"
    /\ pos = width * height
    /\ lifetime' = lifetime + 1
    /\ pc' = "idle"
    /\ pos' = 0
    /\ handled' = {}
    /\ fresh' = {}
    /\ lastOp' = "pass"
    /\ lastEffects' = << >>
    /\ UNCHANGED << width, height, grid, start, placed, ct >>

Next ==
    \/ PlaceTile
    \/ DeleteTile
    \/ ReplaceTile
    \/ BeginPass
    \/ VisitCell
    \/ EndPass

Spec == Init /\ [][Next]_vars

\* ----- the codec operations on their own -----

CodecInit ==
    /\ width = 1
    /\ height = 1
    /\ lifetime = 0
    /\ grid = [c \in Cells(1, 1) |-> AIR]
    /\ pc = "idle"
    /\ pos = 0
    /\ handled = {}
    /\ fresh = {}
    /\ start = grid
    /\ placed = << >>
    /\ lastOp = "create"
    /\ lastEffects = << >>
    /\ ct = CtNone

CodecCreate ==
    /\ \E t \in TileTypes, time \in 0 .. MaxCodecTime :
           ct' = [op |-> "create", type |-> t, in |-> t, time |-> time,
                  tile |-> create_tile(time, t)]
    /\ UNCHANGED << width, height, lifetime, grid, pc, pos, handled, fresh, start,
                    placed, lastOp, lastEffects >>

CodecSetUpdated ==
    /\ \E b \in Bytes, time \in 0 .. MaxCodecTime :
           ct' = [op |-> "set", type |-> get_tile_type(b), in |-> b, time |-> time,
                  tile |-> set_tile_updated(b, time)]
    /\ UNCHANGED << width, height, lifetime, grid, pc, pos, handled, fresh, start,
                    placed, lastOp, lastEffects >>

\* Every classification function applied to one tile byte.
Classify(tile) ==
    [gravity |-> _tile_has_gravity(tile),
     solid |-> _tile_is_solid(tile),
     liquid |-> _tile_is_liquid(tile),
     gas |-> _tile_is_gas(tile),
     incendiary |-> _tile_is_incendiary(tile),
     flammability |-> _tile_flammability(tile),
     survival |-> survival_chances(get_tile_lifespan(tile))]

CodecClassify ==
    /\ \E b \in Bytes :
           ct' = [op |-> "classify", type |-> get_tile_type(b), in |-> b, time |-> 0,
                  tile |-> b, class |-> Classify(b)]
    /\ UNCHANGED << width, height, lifetime, grid, pc, pos, handled, fresh, start,
                    placed, lastOp, lastEffects >>

CodecNext ==
    \/ CodecCreate
    \/ CodecSetUpdated
    \/ CodecClassify

CodecSpec == CodecInit /\ [][CodecNext]_vars

\* ----- properties of a pass -----

\* The steps a visit reported, as a set.
Effects == {lastEffects[i] : i \in 1 .. Len(lastEffects)}

\* The cell the last visit was at.
Visited == << (pos - 1) \div width, (pos - 1) % width >>

TypeGrid(g) == [c \in DOMAIN g |-> get_tile_type(g[c])]

\* The cells of g that hold SAND when every other cell is AIR, else {}.
OnlySandAt(g) ==
    {p \in DOMAIN g :
        TypeGrid(g) = [c \in DOMAIN g |-> IF c = p THEN SAND ELSE AIR]}

\* C1: during a scan no tile goes through the reaction/movement pipeline a
\* second time: every tile that went through it is still flagged as updated
\* for the running lifetime wherever a swap has put it, so the scan skips it,
\* and no visit runs the pipeline on a tile that already went through it.
C1_NoTileProcessedTwice ==
    pc = "scan" =>
        /\ \A p \in handled :
              /\ ~_tile_is_empty(grid[p])
              /\ is_tile_updated(grid[p], lifetime)
        /\ "rerun" \notin Effects

\* C1 witness: the scan has just skipped a tile that an earlier visit of the
\* same scan had processed and swapped ahead into this cell.
C1_SkippedSwappedTile ==
    /\ pc = "scan"
    /\ lastOp = "visit"
    /\ lastEffects = << "updated" >>
    /\ Visited \in handled

\* C2 (as stated): when a pass ends that began with a single SAND at row r,
\* every other cell AIR and row r+1 inside the grid, the SAND is at row r+1
\* of the same column.
C2_SandOneRowDown ==
    lastOp = "pass" =>
        \A p \in OnlySandAt(start) :
            p[1] + 1 < height => << p[1] + 1, p[2] >> \in OnlySandAt(grid)

\* C2 (amended): under the same precondition the SAND is at row r+1 of the
\* same column when its updated-flag differed from the parity of the
\* lifetime the pass ran with, and still at row r when the flag equalled it
\* (the tile was created at that lifetime); in no case is it further down.
C2_SandAtMostOneRowDown ==
    lastOp = "pass" =>
        \A p \in OnlySandAt(start) :
            p[1] + 1 < height =>
                IF is_tile_updated(start[p], lifetime - 1)
                THEN p \in OnlySandAt(grid)
                ELSE << p[1] + 1, p[2] >> \in OnlySandAt(grid)

\* C2 witness: a pass has ended that began with a single SAND at row 0 of a
\* grid of three rows, its flag differing from the pass's parity; the SAND
\* is at row 1, with row 2 free below it.
C2_SandFellOneRow ==
    /\ lastOp = "pass"
    /\ height = 3
    /\ \E p \in OnlySandAt(start) :
          /\ p[1] = 0
          /\ ~is_tile_updated(start[p], lifetime - 1)
          /\ << 1, p[2] >> \in OnlySandAt(grid)

\* The conversions among the steps a visit reported.
Conversions == Effects \cap {"die", "burn", "extinguish"}

\* C3: in every visit of a scan the per-type tile counts change only by a
\* failed survival roll (one tile less of the visited type), a burn (one
\* tile of the visited type becomes FIRE) or an extinguish (one FIRE becomes
\* STEAM); a visit that only moves tiles leaves every count as it was; and
\* on a grid holding only SAND, WATER and WOOD no visit converts anything, so
\* the counts stay the same over any number of passes.
C3_Conservation ==
    [][lastOp' = "visit" =>
        LET conv == Conversions'
            was == get_tile_type(grid[Visited'])
            diff(t) == CountType(grid', t) - CountType(grid, t)
            expect(t) ==
                IF conv = {"die"} THEN (IF t = was THEN -1 ELSE 0)
                ELSE IF conv = {"burn"}
                THEN (IF t = was THEN -1 ELSE IF t = FIRE THEN 1 ELSE 0)
                ELSE IF conv = {"extinguish"}
                THEN (IF t = FIRE THEN -1 ELSE IF t = STEAM THEN 1 ELSE 0)
                ELSE 0
        IN  /\ Cardinality(conv) <= 1
            /\ conv = {"burn"} => was # FIRE
            /\ conv = {"extinguish"} => was = FIRE
            /\ \A t \in PlaceTypes : diff(t) = expect(t)
            /\ (\A c \in DOMAIN grid : get_tile_type(grid[c]) \in {AIR, SAND, WATER, WOOD})
                  => conv = {}
    ]_vars

\* C3 witness: a gravity step has swapped the visited tile with another
\* tile (not with AIR), so two tiles changed cells in one visit.
C3_TwoTilesSwapped ==
    /\ lastOp = "visit"
    /\ "gravity" \in Effects
    /\ ~_tile_is_empty(grid[Visited])

\* Scenario A: the sandbox was created with 3 rows and 1 column, and the only
\* call that changed it since was place_tile of SAND at (0,0) before any pass.
ScenarioA ==
    /\ height = 3
    /\ width = 1
    /\ placed = << [op |-> "place", cell |-> << 0, 0 >>, type |-> SAND] >>

\* C4 (as stated): in scenario A, after process_sandbox was called twice the
\* SAND is at (2,0).
C4_SandAtBottomAfterTwo ==
    (ScenarioA /\ pc = "idle" /\ lifetime = 2) => << 2, 0 >> \in OnlySandAt(grid)

\* C4 (amended): in scenario A the pass at lifetime 0 skips the SAND, which
\* place_tile created flagged for lifetime 0: after one pass the SAND is still
\* at (0,0), after two passes it is at (1,0) and after three at (2,0).
C4_SandAtBottomAfterThree ==
    (ScenarioA /\ pc = "idle") =>
        /\ lifetime = 0 => << 0, 0 >> \in OnlySandAt(grid)
        /\ lifetime = 1 => << 0, 0 >> \in OnlySandAt(grid)
        /\ lifetime = 2 => << 1, 0 >> \in OnlySandAt(grid)
        /\ lifetime = 3 => << 2, 0 >> \in OnlySandAt(grid)

\* C4 witness: scenario A right after the second pass, the SAND at (1,0).
C4_AfterSecondPass ==
    /\ ScenarioA
    /\ lastOp = "pass"
    /\ lifetime = 2
    /\ << 1, 0 >> \in OnlySandAt(grid)

\* C5 (as stated): a tile created at lifetime L (by a placement before the
\* pass, or by a burn or an extinguish inside it) is not processed by the
\* pass that runs at lifetime L: no visit rolls for it or moves it as the
\* source; and it is not flagged as updated for lifetime L+1.
C5_CreatedTileWaits ==
    /\ lastOp = "visit" => "fresh" \notin Effects
    /\ pc = "scan" =>
          \A p \in fresh :
              ~_tile_is_empty(grid[p]) => ~is_tile_updated(grid[p], lifetime + 1)

\* C6: when a pass has ended, the updated-flag of every non-AIR cell equals
\* the parity of the lifetime the pass ran with, so that no non-AIR cell is
\* flagged as updated for the lifetime the sandbox has now.
C6_FlagsAfterPass ==
    lastOp = "pass" =>
        \A c \in DOMAIN grid :
            ~_tile_is_empty(grid[c]) =>
                /\ get_updated_flag(grid[c]) = get_time_parity(lifetime - 1)
                /\ ~is_tile_updated(grid[c], lifetime)

\* C6 witness: a pass has ended on a grid that held, before the pass, a tile
\* whose flag differed from the pass's parity and a tile whose flag equalled
\* it, and both tiles are still there.
C6_MixedFlagsBefore ==
    /\ lastOp = "pass"
    /\ CountTiles(grid) = 2
    /\ \E c, d \in DOMAIN start :
          /\ ~_tile_is_empty(start[c])
          /\ ~_tile_is_empty(start[d])
          /\ get_updated_flag(start[c]) # get_time_parity(lifetime - 1)
          /\ get_updated_flag(start[d]) = get_time_parity(lifetime - 1)

\* The steps of the priority list that change the grid.
Outcomes == {"die", "burn", "extinguish", "gravity", "flow", "lift"}

\* C7 (as stated): in every visit at most one step of the priority list
\* takes effect: a deletion, a conversion to FIRE, a conversion to STEAM, one
\* gravity swap, one flow swap or one lift swap, never two of them.
C7_OneOutcomePerVisit ==
    lastOp = "visit" => Cardinality(Effects \cap Outcomes) <= 1

\* C8: a tile made by create_tile at lifetime L is flagged as updated for L
\* and not for L+1, for every tile type and every lifetime.
C8_CreatedFlagParity ==
    ct.op = "create" =>
        /\ is_tile_updated(ct.tile, ct.time)
        /\ ~is_tile_updated(ct.tile, ct.time + 1)

\* C8 witness: create_tile has made a FIRE tile at an odd lifetime.
C8_CreatedAtOddTime ==
    /\ ct.op = "create"
    /\ ct.type = FIRE
    /\ ct.time % 2 = 1

\* C9: the type read back from a tile made by create_tile is the type it
\* was made with, for every tile type and every lifetime: the flag in bit 7
\* does not disturb bits 0-3.
C9_TypeRoundTrip ==
    ct.op = "create" => get_tile_type(ct.tile) = ct.type

\* C9 witness: create_tile has made a WOOD tile whose bit 7 is set.
C9_CreatedWithFlagSet ==
    /\ ct.op = "create"
    /\ ct.type = WOOD
    /\ ct.tile >= 128

\* C10: on every grid the program reaches and at every lifetime, place_tile
\* on a cell whose type bits are not AIR, delete_tile on a cell whose type
\* bits are AIR, and replace_tile with the type the cell's type bits hold
\* each return the grid unchanged in every byte.
C10_IdempotentPlacement ==
    \A p \in DOMAIN grid, type \in PlaceTypes :
        /\ grid[p] % 16 # AIR =>
              place_tile(grid, height, width, lifetime, p, type) = grid
        /\ grid[p] % 16 = AIR =>
              delete_tile(grid, height, width, p) = grid
        /\ grid[p] % 16 = type =>
              replace_tile(grid, height, width, lifetime, p, type) = grid

\* C10 witness: a placement call inside the grid has just left the grid as
\* it was, at lifetime 1, on a grid holding a tile flagged for lifetime 0
\* and a tile flagged for lifetime 1.
C10_NoOpCall ==
    /\ lastOp = "noop"
    /\ lifetime = 1
    /\ \E p, q \in DOMAIN grid :
          /\ ~_tile_is_empty(grid[p])
          /\ ~_tile_is_empty(grid[q])
          /\ get_updated_flag(grid[p]) = 0
          /\ get_updated_flag(grid[q]) = 1

\* ----- placement outside the grid -----

\* C11: a place_tile, delete_tile or replace_tile call whose coordinate is
\* outside the grid changes nothing: the grid keeps every byte and the
\* lifetime, the width and the height are as before.  (The operations are
\* evaluated on such coordinates without applying the grid to a cell outside
\* its domain.)
C11_OutOfBoundsNoOp ==
    [][lastOp' = "oob" =>
          /\ grid' = grid
          /\ lifetime' = lifetime
          /\ width' = width
          /\ height' = height
    ]_vars

\* C11 witness: a placement call with a coordinate outside the grid has just
\* returned, at lifetime 1, on a grid that holds a tile.
C11_OutOfBoundsCall ==
    /\ lastOp = "oob"
    /\ lifetime = 1
    /\ CountTiles(grid) >= 1

\* ----- the scan on AIR -----

\* C12: a visit of the scan to a cell whose type bits are AIR writes
\* nothing: the whole grid keeps every byte; and a pass over a grid whose
\* cells are all AIR ends with the grid as it began and the lifetime one
\* higher.
C12_AirVisitWritesNothing ==
    [][/\ (lastOp' = "visit" /\ grid[Visited'] % 16 = AIR) =>
              /\ grid' = grid
              /\ lifetime' = lifetime
       /\ (lastOp' = "pass" /\ CountTiles(start) = 0) =>
              /\ grid' = start
              /\ lifetime' = lifetime + 1
    ]_vars

\* C12 witness: the scan has just visited an AIR cell whose flag bit is set
\* (byte 128) in a pass of even lifetime, for which that flag is not the
\* updated one.
C12_VisitedFlaggedAir ==
    /\ lastOp = "visit"
    /\ lastEffects = << "empty" >>
    /\ lifetime = 2
    /\ grid[Visited] = 128

\* ----- scenario C: FIRE beside WATER -----

\* The cells of g that hold FIRE with WATER in the cell immediately to the
\* left.
FireRightOfWater(g) ==
    {p \in DOMAIN g :
        /\ get_tile_type(g[p]) = FIRE
        /\ p[2] >= 1
        /\ get_tile_type(g[<< p[1], p[2] - 1 >>]) = WATER}

\* C13 (as stated): when a pass ends that began with a FIRE tile whose left
\* neighbour was WATER, the cell that held the FIRE holds STEAM.
C13_FireBecomesSteam ==
    lastOp = "pass" =>
        \A p \in FireRightOfWater(start) : get_tile_type(grid[p]) = STEAM

\* C13 (amended): when the scan visits a FIRE tile that is not flagged as
\* updated and WATER is then in the cell immediately to its left, the FIRE
\* either fails its survival roll and the cell becomes AIR, or is converted
\* to a STEAM tile flagged for the running lifetime; that STEAM is in the
\* visited cell at the end of the visit unless the lift step of the same
\* visit swapped it into one of the cells above or beside it.
C13_VisitedFireBecomesSteam ==
    [][(/\ lastOp' = "visit"
        /\ Visited' \in FireRightOfWater(grid)
        /\ ~is_tile_updated(grid[Visited'], lifetime)) =>
          LET p == Visited'
              eff == Effects'
          IN  \/ /\ eff = {"die"}
                 /\ grid' = [grid EXCEPT ![p] = AIR]
              \/ /\ eff = {"extinguish"}
                 /\ grid' = [grid EXCEPT ![p] = create_tile(lifetime, STEAM)]
              \/ /\ eff = {"extinguish", "fresh", "lift"}
                 /\ \E i \in 1 .. 5 :
                        LET t == movement_options(p[1], p[2])[i]
                        IN  /\ t \in DOMAIN grid
                            /\ grid'[t] = create_tile(lifetime, STEAM)
                            /\ grid'[p] = set_tile_updated(grid[t], lifetime)
    ]_vars

\* C13 witness: a visit has just converted a FIRE tile with WATER to its left
\* into STEAM, and the STEAM is in the visited cell beside the WATER.
C13_FireExtinguishedInPlace ==
    /\ lastOp = "visit"
    /\ Effects = {"extinguish"}
    /\ Visited[2] >= 1
    /\ get_tile_type(grid[<< Visited[1], Visited[2] - 1 >>]) = WATER
    /\ grid[Visited] = create_tile(lifetime, STEAM)

\* ----- scenario B: WATER on a floor -----

\* The cells of g that hold WATER when every other cell is AIR, else {}.
OnlyWaterAt(g) ==
    {p \in DOMAIN g :
        TypeGrid(g) = [c \in DOMAIN g |-> IF c = p THEN WATER ELSE AIR]}

C15_LifetimeCountsPasses ==
    [][/\ lastOp = "create" => lifetime = 0
       /\ width' = width
       /\ height' = height
       /\ lastOp' = "pass" =>
              /\ pc = "scan"
              /\ pos = width * height
              /\ lifetime' = lifetime + 1
       /\ lastOp' # "pass" => lifetime' = lifetime
    ]_vars

\* C15 witness: the third pass has just ended on a sandbox that placement
\* calls had changed along the way.
C15_ThreePassesDone ==
    /\ lastOp = "pass"
    /\ lifetime = 3
    /\ Len(placed) = 1
    /\ placed[1].op = "many"

\* ----- classification tables -----

\* The type id the table of the specification calls FUEL: the id that
\* follows FIRE.  enum tile_type of sandbox.h has no such enumerator.
FUEL == FIRE + 1

\* The row of the classification table for type t, given the set of types
\* each column holds.
TableRow(t, gravity, solid, liquid, gas, incendiary, flammable, survives) ==
    [gravity |-> t \in gravity, solid |-> t \in solid, liquid |-> t \in liquid,
     gas |-> t \in gas, incendiary |-> t \in incendiary,
     flammable |-> t \in flammable, survives |-> t \in survives]

\* What the classification functions returned, in the terms of the table.
ClassRow(class) ==
    [gravity |-> class.gravity, solid |-> class.solid, liquid |-> class.liquid,
     gas |-> class.gas, incendiary |-> class.incendiary,
     flammable |-> class.flammability > 0, survives |-> class.survival = 100]

MaxArgs == 5

\* Preset sizes for sandbox, in tiles.
SANDBOX_SMALL_WIDTH == 16
SANDBOX_SMALL_HEIGHT == 9
SANDBOX_MEDIUM_WIDTH == 80
SANDBOX_MEDIUM_HEIGHT == 45
SANDBOX_LARGE_WIDTH == 160
SANDBOX_LARGE_HEIGHT == 90

\* The argument texts the command line is built from.
ArgTexts ==
    {"--size", "small", "medium", "large", "--width", "--height",
     "0", "7", "50", "300"}

\* argv[1 .. argc-1]; argv[0] is the program name, so argc = Len(args) + 1.
ArgVectors == UNION {[1 .. n -> ArgTexts] : n \in 0 .. MaxArgs}

\* atoi: the value of a decimal text, 0 for a text that is no number.
atoi(text) ==
    CASE text = "7" -> 7
      [] text = "50" -> 50
      [] text = "300" -> 300
      [] OTHER -> 0

\* print_usage_string(argv[0]); exit(EXIT_FAILURE);
usage_exit == [exited |-> TRUE, dimensions |-> << 0, 0 >>]

\* parse_args returned with dimensions written in (width, height) order.
parsed(w, h) == [exited |-> FALSE, dimensions |-> << w, h >>]

\* parse_args(argc, argv, dimensions), args being argv without argv[0].
parse_args(args) ==
    LET argc == Len(args) + 1
    IN  IF argc = 1
        THEN parsed(SANDBOX_MEDIUM_WIDTH, SANDBOX_MEDIUM_HEIGHT)
        ELSE IF argc = 2
        THEN usage_exit
        ELSE IF argc = 3
        THEN IF args[1] # "--size"
             THEN usage_exit
             ELSE IF args[2] = "small"
             THEN parsed(SANDBOX_SMALL_WIDTH, SANDBOX_SMALL_HEIGHT)
             ELSE IF args[2] = "medium"
             THEN parsed(SANDBOX_MEDIUM_WIDTH, SANDBOX_MEDIUM_HEIGHT)
             ELSE IF args[2] = "large"
             THEN parsed(SANDBOX_LARGE_WIDTH, SANDBOX_LARGE_HEIGHT)
             ELSE usage_exit
        ELSE IF argc = 4
        THEN usage_exit
        ELSE IF argc = 5
        THEN IF args[1] = "--height"
             THEN usage_exit
             ELSE IF args[1] # "--width" \/ args[3] # "--height"
             THEN usage_exit
             ELSE IF atoi(args[2]) <= 0 \/ atoi(args[4]) <= 0
             THEN usage_exit
             ELSE parsed(atoi(args[2]), atoi(args[4]))
        ELSE parsed(0, 0)

\* main: parse_args(argc, argv, sandbox_dimensions).
MainParseArgs ==
    /\ ct.op = "none"
    /\ \E args \in ArgVectors :
           \E r \in {parse_args(args)} :
               ct' = [op |-> "parse_args", argv |-> args, exited |-> r.exited,
                      dimensions |-> r.dimensions]
    /\ UNCHANGED << width, height, lifetime, grid, pc, pos, handled, fresh, start,
                    placed, lastOp, lastEffects >>

\* main: create_sandbox(sandbox_dimensions[0], sandbox_dimensions[1]), reached
\* when parse_args returned.
MainCreateSandbox ==
    /\ ct.op = "parse_args"
    /\ ~ct.exited
    /\ ct' = [ct EXCEPT !.op = "create_sandbox"]
    /\ UNCHANGED << width, height, lifetime, grid, pc, pos, handled, fresh, start,
                    placed, lastOp, lastEffects >>

CliNext ==
    \/ MainParseArgs
    \/ MainCreateSandbox

CliSpec == CodecInit /\ [][CliNext]_vars

\* The valid forms of the command line: no arguments; --size with a preset
\* name; --width W --height H with positive integers.
ValidArgs(args) ==
    \/ Len(args) = 0
    \/ /\ Len(args) = 2
       /\ args[1] = "--size"
       /\ args[2] \in {"small", "medium", "large"}
    \/ /\ Len(args) = 4
       /\ args[1] = "--width"
       /\ args[3] = "--height"
       /\ atoi(args[2]) > 0
       /\ atoi(args[4]) > 0

\* C17 (as stated): for every argument vector that is not of a valid form,
\* vectors of more than four arguments included, parse_args exits with the
\* usage string and no sandbox is created.
C17_InvalidArgsExit ==
    /\ (ct.op = "parse_args" /\ ~ValidArgs(ct.argv)) => ct.exited
    /\ ct.op = "create_sandbox" => ValidArgs(ct.argv)

\* C18 (as stated): for custom --width W --height H greater than 0 the
\* sandbox is created with the width within the small .. large preset widths
\* and the height within the small .. large preset heights.
C18_CustomDimensionsBound ==
    (ct.op = "create_sandbox" /\ Len(ct.argv) = 4) =>
        /\ ct.dimensions[1] \in SANDBOX_SMALL_WIDTH .. SANDBOX_LARGE_WIDTH
        /\ ct.dimensions[2] \in SANDBOX_SMALL_HEIGHT .. SANDBOX_LARGE_HEIGHT

\* ----- do_gravity on its own -----

\* do_gravity(sandbox, row, col) reads the rows row and row + 1 and the
\* columns col - 1 .. col + 1 only: grids of up to two rows and three columns
\* with the tile in row 0 hold every case of it, the edges included.
WindowRows == 2
WindowCols == 3

WindowGrids ==
    UNION {[Cells(h, w) -> TileTypes] : h \in 1 .. WindowRows, w \in 1 .. WindowCols}

\* The number of rows and of columns of a grid.
RowsOf(g) == Cardinality({p[1] : p \in DOMAIN g})

ColsOf(g) == Cardinality({p[2] : p \in DOMAIN g})

\* process_sandbox calls do_gravity(sandbox, row, col) on a tile that has
\* gravity; rv is the value rand() returns to the coin flip.
ApplyGravity ==
    /\ ct.op = "none"
    /\ \E g \in WindowGrids, rv \in RandVals :
           \E col \in 0 .. ColsOf(g) - 1 :
               /\ _tile_has_gravity(g[<< 0, col >>])
               /\ \E t \in {gravity_target(g, RowsOf(g), ColsOf(g), 0, col, rv)} :
                      ct' = [op |-> "do_gravity", g |-> g, row |-> 0, col |-> col,
                             rv |-> rv, target |-> t,
                             out |-> do_gravity(g, RowsOf(g), ColsOf(g), 0, col, rv)]
    /\ UNCHANGED << width, height, lifetime, grid, pc, pos, handled, fresh, start,
                    placed, lastOp, lastEffects >>

\* process_sandbox calls do_liquid_flow(sandbox, row, col) for a liquid tile;
\* the function reads the rows row and row + 1 and the columns col - 1 ..
\* col + 1 only.  rv is the value rand() returns to the coin flip.
ApplyFlow ==
    /\ ct.op = "none"
    /\ \E g \in WindowGrids, rv \in RandVals :
           \E col \in 0 .. ColsOf(g) - 1 :
               /\ _tile_is_liquid(g[<< 0, col >>])
               /\ \E t \in {liquid_flow_target(g, RowsOf(g), ColsOf(g), 0, col, rv)} :
                      ct' = [op |-> "do_liquid_flow", g |-> g, row |-> 0, col |-> col,
                             rv |-> rv, target |-> t,
                             out |-> do_liquid_flow(g, RowsOf(g), ColsOf(g), 0, col, rv)]
    /\ UNCHANGED << width, height, lifetime, grid, pc, pos, handled, fresh, start,
                    placed, lastOp, lastEffects >>

\* process_sandbox calls do_lift(sandbox, row, col) for a gas tile; the
\* function reads the rows row - 1 and row and the columns col - 1 .. col + 1
\* only.  The tile is taken in either row of the window, so that a row above
\* or a row below it exists.  rv is the value rand() returns to randint;
\* the body is that of do_lift: collect target_indices, pick one, swap.
ApplyLift ==
    /\ ct.op = "none"
    /\ \E g \in WindowGrids :
           \E p \in DOMAIN g :
               /\ _tile_is_gas(g[p])
               /\ \E targets \in {target_indices(g, RowsOf(g), ColsOf(g), p[1], p[2], 1)} :
                      \E rv \in RandVals :
                          \E t \in {pick_target(targets, rv)} :
                              ct' = [op |-> "do_lift", g |-> g, row |-> p[1],
                                     col |-> p[2], rv |-> rv, target |-> t,
                                     out |-> swap_to(g, p[1], p[2], t)]
    /\ UNCHANGED << width, height, lifetime, grid, pc, pos, handled, fresh, start,
                    placed, lastOp, lastEffects >>

MoveNext ==
    \/ ApplyGravity
    \/ ApplyFlow

MoveSpec == CodecInit /\ [][MoveNext]_vars

\* process_sandbox calls do_extinguish(sandbox, row, col) for a FIRE tile; the
\* function reads the four cardinal neighbours of (row, col) and the
\* sandbox's lifetime.
ApplyExtinguish ==
    /\ ct.op = "none"
    /\ \E g \in WindowGrids, current_time \in 0 .. MaxPlaceTime :
           \E p \in DOMAIN g :
               /\ get_tile_type(g[p]) = FIRE
               /\ ct' = [op |-> "do_extinguish", g |-> g, row |-> p[1], col |-> p[2],
                         time |-> current_time,
                         out |-> do_extinguish(g, RowsOf(g), ColsOf(g), current_time,
                                               p[1], p[2])]
    /\ UNCHANGED << width, height, lifetime, grid, pc, pos, handled, fresh, start,
                    placed, lastOp, lastEffects >>

\* do_extinguish on its own.
ExtinguishNext ==
    \/ ApplyExtinguish

ExtinguishSpec == CodecInit /\ [][ExtinguishNext]_vars

\* do_lift on its own.
LiftNext ==
    \/ ApplyLift

LiftSpec == CodecInit /\ [][LiftNext]_vars

\* The side of (row, col) in direction d (-1 left, 1 right) is blocked: the
\* column is outside the grid or the same-row neighbour is solid.
SideBlocked(g, row, col, d) ==
    \/ << row, col + d >> \notin DOMAIN g
    \/ _tile_is_solid(g[<< row, col + d >>])

\* The cell below (row, col) lets the tile fall or sink straight down.
FallsStraight(g, row, col) ==
    /\ << row + 1, col >> \in DOMAIN g
    /\ \/ _tile_is_empty(g[<< row + 1, col >>])
       \/ /\ _tile_is_liquid(g[<< row + 1, col >>])
          /\ ~_are_tiles_same_type(g[<< row, col >>], g[<< row + 1, col >>])

\* The diagonal cell in direction d is a legal destination: the side is
\* not blocked and the cell is empty (slide) or a liquid of another type
\* (sink).
DiagonalLegal(g, row, col, d) ==
    /\ << row + 1, col + d >> \in DOMAIN g
    /\ ~SideBlocked(g, row, col, d)
    /\ \/ _tile_is_empty(g[<< row + 1, col + d >>])
       \/ /\ _tile_is_liquid(g[<< row + 1, col + d >>])
          /\ ~_are_tiles_same_type(g[<< row, col >>], g[<< row + 1, col + d >>])

C20_DiagonalTieBreak ==
    (ct.op = "do_gravity" /\ << ct.row + 1, ct.col >> \in DOMAIN ct.g
        /\ ~FallsStraight(ct.g, ct.row, ct.col)) =>
        LET legal == {d \in {-1, 1} : DiagonalLegal(ct.g, ct.row, ct.col, d)}
            outs == {gravity_target(ct.g, RowsOf(ct.g), ColsOf(ct.g),
                                    ct.row, ct.col, rv) : rv \in RandVals}
        IN  outs = IF legal = {}
                   THEN {NoCell}
                   ELSE {<< ct.row + 1, ct.col + d >> : d \in legal}

\* C21: a direct move has priority in do_gravity.  A tile in the bottom row
\* is never moved; if the cell below is empty or a liquid of another type,
\* the tile is swapped with the cell below and nothing else changes, so no
\* diagonal move happens in that case; and a liquid is never swapped with a
\* liquid of its own type.
C21_DirectMovePriority ==
    ct.op = "do_gravity" =>
        LET src == << ct.row, ct.col >>
            down == << ct.row + 1, ct.col >>
        IN  /\ down \notin DOMAIN ct.g => (ct.target = NoCell /\ ct.out = ct.g)
            /\ FallsStraight(ct.g, ct.row, ct.col) =>
                   /\ ct.target = down
                   /\ ct.out = [ct.g EXCEPT ![src] = ct.g[down], ![down] = ct.g[src]]
            /\ ct.target # NoCell =>
                   ~(/\ _tile_is_liquid(ct.g[src])
                     /\ _tile_is_liquid(ct.g[ct.target])
                     /\ _are_tiles_same_type(ct.g[src], ct.g[ct.target]))

\* C21 witness: do_gravity ran on SAND above WATER with an empty cell
\* diagonally below, and the SAND sank straight down.
C21_SankWithDiagonalFree ==
    /\ ct.op = "do_gravity"
    /\ ct.g = (<< 0, 0 >> :> AIR @@ << 0, 1 >> :> SAND @@ << 0, 2 >> :> AIR
               @@ << 1, 0 >> :> AIR @@ << 1, 1 >> :> WATER @@ << 1, 2 >> :> AIR)
    /\ ct.col = 1
    /\ ct.out[<< 1, 1 >>] = SAND
    /\ ct.out[<< 0, 1 >>] = WATER

\* The liquid at (row, col) rests: the cell below is off the bottom edge,
\* solid or a liquid.
Resting(g, row, col) ==
    \/ << row + 1, col >> \notin DOMAIN g
    \/ _tile_is_solid(g[<< row + 1, col >>])
    \/ _tile_is_liquid(g[<< row + 1, col >>])

\* The same-row neighbour in direction d (-1 left, 1 right) is a legal
\* destination of a flow: in bounds and empty or a liquid of another type.
FlowLegal(g, row, col, d) ==
    /\ << row, col + d >> \in DOMAIN g
    /\ \/ _tile_is_empty(g[<< row, col + d >>])
       \/ /\ _tile_is_liquid(g[<< row, col + d >>])
          /\ ~_are_tiles_same_type(g[<< row, col >>], g[<< row, col + d >>])

LiftCandidates(row, col) ==
    {<< row - 1, col >>, << row - 1, col - 1 >>, << row - 1, col + 1 >>,
     << row, col - 1 >>, << row, col + 1 >>}

\* The candidate t is a legal destination of the gas at (row, col): in
\* bounds and empty, a gas of another type, or a liquid not in the same row.
LiftLegal(g, row, col, t) ==
    /\ t \in DOMAIN g
    /\ \/ _tile_is_empty(g[t])
       \/ (_tile_is_gas(g[t]) /\ ~_are_tiles_same_type(g[<< row, col >>], g[t]))
       \/ (_tile_is_liquid(g[t]) /\ t[1] # row)

\* C23: do_lift swaps the gas with at most one cell and changes nothing
\* else; over the values of the draw the targets are exactly the legal
\* candidates (no move and an unchanged grid when there is none), so the
\* gas is never swapped with a solid, a gas of its own type, a liquid in its
\* own row or a cell below.
C23_LiftLegality ==
    ct.op = "do_lift" =>
        LET src == << ct.row, ct.col >>
            legal == {t \in LiftCandidates(ct.row, ct.col) :
                          LiftLegal(ct.g, ct.row, ct.col, t)}
            outs == UNION {{pick_target(targets, rv) : rv \in RandVals} :
                           targets \in {target_indices(ct.g, RowsOf(ct.g), ColsOf(ct.g),
                                                       ct.row, ct.col, 1)}}
        IN  /\ outs = IF legal = {} THEN {NoCell} ELSE legal
            /\ ct.target \in outs
            /\ ct.out = IF ct.target = NoCell
                        THEN ct.g
                        ELSE [ct.g EXCEPT ![src] = ct.g[ct.target],
                                          ![ct.target] = ct.g[src]]
            /\ ct.target # NoCell =>
                   /\ ct.target[1] <= ct.row
                   /\ ~_tile_is_solid(ct.g[ct.target])
                   /\ ~(_tile_is_gas(ct.g[ct.target])
                        /\ _are_tiles_same_type(ct.g[src], ct.g[ct.target]))
                   /\ ~(_tile_is_liquid(ct.g[ct.target]) /\ ct.target[1] = ct.row)

\* C23 witness: STEAM with WATER above it and WATER on both sides lifted
\* through the WATER above, the only move up-left and up-right being barred
\* by SAND and STEAM.
C23_LiftedThroughLiquidAbove ==
    /\ ct.op = "do_lift"
    /\ ct.g = (<< 0, 0 >> :> SAND @@ << 0, 1 >> :> WATER @@ << 0, 2 >> :> STEAM
               @@ << 1, 0 >> :> WATER @@ << 1, 1 >> :> STEAM @@ << 1, 2 >> :> WATER)
    /\ ct.row = 1
    /\ ct.col = 1
    /\ ct.target = << 0, 1 >>
    /\ ct.out[<< 0, 1 >>] = STEAM
    /\ ct.out[<< 1, 1 >>] = WATER

\* The in-bounds cardinal neighbours of (row, col).
Cardinals(g, row, col) ==
    {<< row - 1, col >>, << row, col + 1 >>, << row + 1, col >>, << row, col - 1 >>}
        \cap DOMAIN g

\* C24: do_extinguish replaces the tile with a STEAM tile flagged updated
\* for the current lifetime iff an in-bounds cardinal neighbour holds WATER;
\* every other cell, the WATER included, keeps its byte, and without WATER
\* on a cardinal neighbour (diagonal WATER or none) the grid is unchanged.
C24_Extinguish ==
    ct.op = "do_extinguish" =>
        LET src == << ct.row, ct.col >>
            wet == \E p \in Cardinals(ct.g, ct.row, ct.col) :
                       get_tile_type(ct.g[p]) = WATER
        IN  /\ \A p \in DOMAIN ct.g \ {src} : ct.out[p] = ct.g[p]
            /\ wet => /\ get_tile_type(ct.out[src]) = STEAM
                      /\ is_tile_updated(ct.out[src], ct.time)
                      /\ ct.out[src] \in {STEAM, STEAM + 128}
            /\ ~wet => ct.out = ct.g

\* C24 witness: at an odd lifetime a FIRE tile with WATER below it and no
\* other WATER around was replaced by flagged STEAM.
C24_ExtinguishedByWaterBelow ==
    /\ ct.op = "do_extinguish"
    /\ ct.g = (<< 0, 0 >> :> AIR @@ << 0, 1 >> :> FIRE @@ << 0, 2 >> :> SAND
               @@ << 1, 0 >> :> WOOD @@ << 1, 1 >> :> WATER @@ << 1, 2 >> :> AIR)
    /\ ct.col = 1
    /\ ct.time = 1
    /\ ct.out[<< 0, 1 >>] = STEAM + 128
    /\ ct.out[<< 1, 1 >>] = WATER

\* ----- the burn and survival rolls in the scan -----

\* C25: in a visit of the scan the number of FIRE tiles grows only by a
\* burn of the visited tile: that tile's type has non-zero flammability and
\* an in-bounds cardinal neighbour of it is incendiary in the grid as the
\* visit finds it; the visited cell then holds FIRE, every other cell keeps
\* its byte, and no other step (extinguish, movement, deletion) ran in the
\* visit.  So a tile of flammability 0 or without an incendiary cardinal
\* neighbour never becomes FIRE.
C25_BurnRule ==
    [][lastOp' = "visit" =>
        LET p == Visited'
            burned == CountType(grid', FIRE) > CountType(grid, FIRE)
        IN  /\ burned <=> "burn" \in Effects'
            /\ burned =>
                   /\ _tile_flammability(grid[p]) > 0
                   /\ \E q \in Cardinals(grid, p[1], p[2]) : _tile_is_incendiary(grid[q])
                   /\ get_tile_type(grid'[p]) = FIRE
                   /\ \A q \in DOMAIN grid \ {p} : grid'[q] = grid[q]
                   /\ Effects' \cap {"die", "extinguish", "gravity", "flow", "lift"} = {}
    ]_vars

\* C25 witness: the scan has just turned a WOOD tile into FIRE: the pass
\* began with one WOOD and one FIRE and the grid now holds two FIRE tiles.
C25_WoodBurned ==
    /\ lastOp = "visit"
    /\ "burn" \in Effects
    /\ CountType(start, WOOD) = 1
    /\ CountType(start, FIRE) = 1
    /\ CountType(grid, FIRE) = 2
    /\ get_tile_type(start[Visited]) = WOOD

\* C26: in a visit of the scan the number of non-AIR tiles falls only by a
\* failed survival roll of the visited tile, whose type is then STEAM or
\* FIRE (the types with a survival chance below 1.0): the visited cell
\* becomes AIR, every other cell keeps its byte and no burn, extinguish or
\* movement step ran in the visit.  No visit lowers the number of SAND or
\* WATER tiles, and the number of WOOD tiles falls only by a burn.
C26_SurvivalRule ==
    [][lastOp' = "visit" =>
        LET p == Visited'
            died == CountTiles(grid') < CountTiles(grid)
        IN  /\ died <=> "die" \in Effects'
            /\ died =>
                   /\ get_tile_type(grid[p]) \in {STEAM, FIRE}
                   /\ survival_chances(get_tile_lifespan(grid[p])) < 100
                   /\ grid'[p] = AIR
                   /\ \A q \in DOMAIN grid \ {p} : grid'[q] = grid[q]
                   /\ Effects' \cap {"burn", "extinguish", "gravity", "flow", "lift"} = {}
            /\ CountType(grid', SAND) = CountType(grid, SAND)
            /\ CountType(grid', WATER) = CountType(grid, WATER)
            /\ CountType(grid', WOOD) < CountType(grid, WOOD) => "burn" \in Effects'
    ]_vars

\* C26 witness: the scan has just deleted a FIRE tile that failed its
\* survival roll next to a WOOD tile, which is still there.
C26_FireDiedBesideWood ==
    /\ lastOp = "visit"
    /\ "die" \in Effects
    /\ get_tile_type(start[Visited]) = FIRE
    /\ grid[Visited] = AIR
    /\ CountType(grid, WOOD) = 1

\* ----- set_tile_updated on every byte -----

\* C27: set_tile_updated(tile, L) changes bit 7 only: for every byte and
\* every L the bits 0-6 of the result are those of the argument, the
\* result is_tile_updated for L, and a second call with the same L returns
\* the byte the first call returned.
C27_SetUpdatedTouchesFlagOnly ==
    ct.op = "set" =>
        /\ ct.tile \in Bytes
        /\ ct.tile % 128 = ct.in % 128
        /\ is_tile_updated(ct.tile, ct.time)
        /\ set_tile_updated(ct.tile, ct.time) = ct.tile

\* C27 witness: set_tile_updated cleared the flag of a byte whose reserved
\* bits 4-6 are set (245 = 1111 0101) at an even lifetime.
C27_ClearedFlagKeptReservedBits ==
    /\ ct.op = "set"
    /\ ct.in = 245
    /\ ct.time = 2
    /\ ct.tile = 117

\* ----- the brush area of the input layer (gui.c) -----

\* The largest TILE_SCALE (the pixel width of a tile's texture) tried.
MaxTileScale == 2

MAX_TARGET_RADIUS == 5

\* The (-1, -1) point that ends a target area.
terminator == << -1, -1 >>

\* A clamp whose range is one wider on both sides.
clamp_one_wider(val, min, max) ==
    IF val < min - 1 THEN min - 1 ELSE IF val > max + 1 THEN max + 1 ELSE val

\* clamp(val, min, max) for min <= max.
clamp(val, min, max) ==
    IF val < min THEN min ELSE IF val > max THEN max ELSE val

\* (int) ((float) pixel / (float) TILE_SCALE): the quotient, cut towards zero.
scale_down(pixel, scale) ==
    IF pixel >= 0 THEN pixel \div scale ELSE -((-pixel) \div scale)

\* The sandbox (row, col) of the window point (x, y).
_scale_screen_coords(x, y, scale, h, w) ==
    << clamp(scale_down(y, scale), 0, h - 1), clamp(scale_down(x, scale), 0, w - 1) >>

\* A side length that leaves out the last row and column of the square.
_compute_target_area_sidelength_short(radius) == radius * 2

_compute_target_area_sidelength(radius) == (radius * 2) + 1

_compute_target_area_size(radius) ==
    IF radius < 0
    THEN 0
    ELSE IF radius = 0
    THEN 1
    ELSE _compute_target_area_sidelength(radius) * _compute_target_area_sidelength(radius)

\* The points the two loops of _get_sandbox_target_area write from the
\* flattened offset i on, in row-major order from the top left of the square.
RECURSIVE target_area_from(_, _, _, _, _, _)
target_area_from(h, w, topleft, sidelength, i, acc) ==
    IF i = sidelength * sidelength
    THEN acc
    ELSE LET next_point == << topleft[1] + (i \div sidelength),
                              topleft[2] + (i % sidelength) >>
         IN  IF is_coord_oob(h, w, next_point)
             THEN target_area_from(h, w, topleft, sidelength, i + 1, acc)
             ELSE target_area_from(h, w, topleft, sidelength, i + 1,
                                   Append(acc, next_point))

\* The array _get_sandbox_target_area fills, the terminator included.
_get_sandbox_target_area(h, w, origin_coords, radius) ==
    IF radius = 0
    THEN << origin_coords, terminator >>
    ELSE Append(target_area_from(h, w,
                                 << origin_coords[1] - radius, origin_coords[2] - radius >>,
                                 _compute_target_area_sidelength(radius), 0, << >>),
                terminator)

\* The points alter_tile passes to the placement operation: the entries of
\* the array before the first one whose row is -1.
RECURSIVE points_passed(_, _)
points_passed(target_area, i) ==
    IF target_area[i][1] = -1
    THEN << >>
    ELSE << target_area[i] >> \o points_passed(target_area, i + 1)

\* alter_tile(mouse, sandbox) for a mouse at the window point (x, y) with the
\* target radius the mouse wheel left in [0, MAX_TARGET_RADIUS].
AlterTile ==
    /\ ct.op = "none"
    /\ \E h \in 1 .. MaxHeight, w \in 1 .. MaxWidth, scale \in 1 .. MaxTileScale,
          radius \in 0 .. MAX_TARGET_RADIUS :
           \E x \in (-scale) .. ((w + 1) * scale), y \in (-scale) .. ((h + 1) * scale) :
               \E origin \in {_scale_screen_coords(x, y, scale, h, w)} :
                   \E area \in {_get_sandbox_target_area(h, w, origin, radius)} :
                       ct' = [op |-> "alter_tile", h |-> h, w |-> w, scale |-> scale,
                              x |-> x, y |-> y, radius |-> radius, origin |-> origin,
                              size |-> _compute_target_area_size(radius),
                              area |-> area, passed |-> points_passed(area, 1)]
    /\ UNCHANGED << width, height, lifetime, grid, pc, pos, handled, fresh, start,
                    placed, lastOp, lastEffects >>

BrushNext ==
    \/ AlterTile

BrushSpec == CodecInit /\ [][BrushNext]_vars

\* The cells of the square of the given radius around the origin.
Square(origin, radius) ==
    ((origin[1] - radius) .. (origin[1] + radius))
        \X ((origin[2] - radius) .. (origin[2] + radius))

Unprocessed(g, hd, fr) ==
    {c \in DOMAIN g : ~_tile_is_empty(g[c]) /\ c \notin (hd \cup fr)}

\* The unprocessed tiles that are flagged as updated: the scan skips them.
Lost(g, hd, fr, current_time) ==
    {c \in Unprocessed(g, hd, fr) : is_tile_updated(g[c], current_time)}

\* The scan has visited every cell and the lifetime is not yet incremented.
ScanDone == pc = "scan" /\ pos = width * height

\* C29 (as stated): no visit processes a tile a second time, and when the
\* scan has visited every cell, every non-AIR tile that was not flagged at
\* the start of the pass has been through the pipeline, also if a swap moved
\* it to another cell.
C29_NoTileLosesTurn ==
    /\ lastOp = "visit" => "rerun" \notin Effects
    /\ ScanDone => Unprocessed(grid, handled, fresh) = {}

\* C29 (amended): a tile goes through the pipeline at most once, and it
\* loses its turn in one way only: a sink or a lift of the visited tile swaps
\* it, a liquid or a gas not yet processed, into the visited cell, where the
\* set_tile_updated call that follows the movement steps flags it, while the
\* visited tile takes its cell.  When the
\* scan has visited every cell, every non-AIR tile has been processed, was
\* created in the running frame, or is such a flagged tile.
C29_TurnLostOnlyByDisplacement ==
    [][lastOp' = "visit" =>
        LET p == Visited'
            before == Lost(grid, handled, fresh, lifetime)
            after == Lost(grid', handled', fresh', lifetime)
        IN  /\ "rerun" \notin Effects'
            /\ Cardinality(after) <= Cardinality(before) + 1
            /\ Cardinality(after) > Cardinality(before) =>
                   /\ p \in after
                   /\ p \notin before
                   /\ Effects' \cap {"gravity", "lift"} # {}
                   /\ _tile_is_liquid(grid'[p]) \/ _tile_is_gas(grid'[p])
                   /\ \E t \in Unprocessed(grid, handled, fresh) \ {p} :
                          /\ ~is_tile_updated(grid[t], lifetime)
                          /\ grid'[p] = set_tile_updated(grid[t], lifetime)
                          /\ t \in handled'
            /\ (pos' = width * height) =>
                   Unprocessed(grid', handled', fresh')
                       = Lost(grid', handled', fresh', lifetime)
    ]_vars

\* C29 witness: the scan of a pass that began with SAND above WATER is done
\* and the WATER, swapped up by the sinking SAND, is flagged without having
\* been through the pipeline.
C29_WaterLostItsTurn ==
    /\ ScanDone
    /\ CountType(start, SAND) = 1
    /\ CountType(start, WATER) = 1
    /\ \E c \in Lost(grid, handled, fresh, lifetime) :
          /\ get_tile_type(grid[c]) = WATER
          /\ get_tile_type(start[c]) = SAND
          /\ get_tile_type(start[<< c[1] + 1, c[2] >>]) = WATER

\* ----- the spread of fire within one pass -----

\* The cell q comes before the cell p in the row-major order of the scan.
ScannedBefore(q, p) == q[1] < p[1] \/ (q[1] = p[1] /\ q[2] < p[2])

\* C30 (as stated): a tile burns in a visit only if one of its cardinal
\* neighbours held an incendiary tile when the pass started.
C30_FireSpreadsOneCell ==
    (lastOp = "visit" /\ "burn" \in Effects) =>
        \E q \in Cardinals(start, Visited[1], Visited[2]) : _tile_is_incendiary(start[q])

\* C30 (amended): a tile burns in a visit only if one of its cardinal
\* neighbours is incendiary in the grid as the visit finds it; each such
\* neighbour either held an incendiary tile when the pass started or lies
\* before the visited cell in scan order (above it or to its left), where a
\* FIRE created or moved earlier in the same scan can be.
C30_FireSpreadsAlongScan ==
    [][(lastOp' = "visit" /\ "burn" \in Effects') =>
        LET p == Visited'
            lit == {q \in Cardinals(grid, p[1], p[2]) : _tile_is_incendiary(grid[q])}
        IN  /\ lit # {}
            /\ \A q \in lit : _tile_is_incendiary(start[q]) \/ ScannedBefore(q, p)
    ]_vars

\* C30 witness: a WOOD tile has just burned although none of its cardinal
\* neighbours held an incendiary tile when the pass started: the FIRE next
\* to it arrived during the scan.
C30_IgnitedByFireMovedInScan ==
    /\ lastOp = "visit"
    /\ "burn" \in Effects
    /\ get_tile_type(start[Visited]) = WOOD
    /\ \A q \in Cardinals(start, Visited[1], Visited[2]) : ~_tile_is_incendiary(start[q])

\* ----- the cells the movement and reaction functions touch -----

\* process_sandbox calls _roll_should_tile_burn(sandbox, row, col) on every
\* tile that survived its roll; found tells whether the search met an
\* incendiary neighbour.
ApplyBurnSearch ==
    /\ ct.op = "none"
    /\ \E g \in WindowGrids :
           \E p \in DOMAIN g :
               /\ ~_tile_is_empty(g[p])
               /\ ct' = [op |-> "burn_search", g |-> g, row |-> p[1], col |-> p[2],
                         rv |-> 0,
                         found |-> _roll_should_tile_burn(g, RowsOf(g), ColsOf(g),
                                                          p[1], p[2], 0)]
    /\ UNCHANGED << width, height, lifetime, grid, pc, pos, handled, fresh, start,
                    placed, lastOp, lastEffects >>

\* Every function process_sandbox calls on a cell of its scan, on its own.
AccessNext ==
    \/ ApplyGravity
    \/ ApplyFlow
    \/ ApplyLift
    \/ ApplyExtinguish
    \/ ApplyBurnSearch

AccessSpec == CodecInit /\ [][AccessNext]_vars

\* The index pairs _can_sink uses as grid[..][..]: none when its bounds test
\* rejects the target, else the source and the target.
_can_sink_cells_unguarded(h, w, row, col, target_row, target_col) ==
    {<< row, col >>, << target_row, target_col >>}

_can_sink_cells(h, w, row, col, target_row, target_col) ==
    IF target_row = h \/ target_col = -1 \/ target_col = w
    THEN {}
    ELSE {<< row, col >>, << target_row, target_col >>}

\* The index pairs _can_lift uses.
_can_lift_cells(w, row, col, target_row, target_col) ==
    IF target_row = -1 \/ target_col = -1 \/ target_col = w
    THEN {}
    ELSE {<< row, col >>, << target_row, target_col >>}

\* The index pairs of the _swap_tiles call on the target t, if any.
_swap_tiles_cells(row, col, t) ==
    IF t = NoCell THEN {} ELSE {<< row, col >>, t}

\* The index pairs do_gravity uses, in the order of its statements; an
\* operand of || or && that is not evaluated uses none.
do_gravity_cells(g, h, w, row, col, rv) ==
    LET next_row == row + 1
        left_col == col - 1
        right_col == col + 1
        below == _can_sink_cells(h, w, row, col, next_row, col) \cup {<< next_row, col >>}
    IN  IF next_row = h
        THEN {}
        ELSE IF _tile_is_empty(g[<< next_row, col >>])
                \/ _can_sink(g, h, w, row, col, next_row, col)
        THEN below \cup _swap_tiles_cells(row, col, << next_row, col >>)
        ELSE LET is_wall_on_left ==
                     left_col = -1 \/ _tile_is_solid(g[<< row, left_col >>])
                 is_wall_on_right ==
                     right_col = w \/ _tile_is_solid(g[<< row, right_col >>])
                 walls == (IF left_col = -1 THEN {} ELSE {<< row, left_col >>})
                          \cup (IF right_col = w THEN {} ELSE {<< row, right_col >>})
             IN  IF is_wall_on_left /\ is_wall_on_right
                 THEN below \cup walls
                 ELSE below \cup walls
                      \cup _can_sink_cells(h, w, row, col, next_row, left_col)
                      \cup _can_sink_cells(h, w, row, col, next_row, right_col)
                      \cup (IF is_wall_on_left THEN {} ELSE {<< next_row, left_col >>})
                      \cup (IF is_wall_on_right THEN {} ELSE {<< next_row, right_col >>})
                      \cup _swap_tiles_cells(row, col,
                                             gravity_target(g, h, w, row, col, rv))

\* The index pairs do_liquid_flow and _slide_left_or_right use.
do_liquid_flow_cells(g, h, w, row, col, rv) ==
    LET next_row == row + 1
        footing == IF next_row = h THEN {} ELSE {<< next_row, col >>}
        on_solid_ground == next_row = h \/ _tile_is_solid(g[<< next_row, col >>])
    IN  IF ~on_solid_ground /\ ~_tile_is_liquid(g[<< next_row, col >>])
        THEN footing
        ELSE footing
             \cup (IF col - 1 = -1 THEN {} ELSE {<< row, col - 1 >>})
             \cup (IF col + 1 = w THEN {} ELSE {<< row, col + 1 >>})
             \cup _swap_tiles_cells(row, col,
                                    _slide_left_or_right_target(g, w, row, col, rv))

\* The index pairs do_lift uses: those of _can_lift on the five movement
\* options and those of the swap.
do_lift_cells(g, h, w, row, col, rv) ==
    UNION {_can_lift_cells(w, row, col, movement_options(row, col)[i][1],
                           movement_options(row, col)[i][2]) : i \in 1 .. 5}
        \cup _swap_tiles_cells(row, col, lift_target(g, h, w, row, col, rv))

\* The index pairs a search of the four cardinal neighbours uses: the
\* in-bounds ones up to and including the first whose tile has one of the
\* types the search looks for.
search_cells(g, h, w, row, col, sought) ==
    LET area == search_area_indices(row, col)
        hits == {i \in 1 .. 4 : /\ ~search_oob(h, w, area[i])
                                /\ get_tile_type(g[area[i]]) \in sought}
        last == IF hits = {} THEN 4 ELSE CHOOSE i \in hits : \A j \in hits : i <= j
    IN  {area[i] : i \in {j \in 1 .. last : ~search_oob(h, w, area[j])}}

\* The index pairs do_extinguish uses: the search for WATER and the write
\* of the STEAM tile.
do_extinguish_cells(g, h, w, row, col) ==
    search_cells(g, h, w, row, col, {WATER})
        \cup (IF is_next_to_water(g, h, w, row, col) THEN {<< row, col >>} ELSE {})

\* The index pairs _roll_should_tile_burn uses.
_roll_should_tile_burn_cells(g, h, w, row, col) ==
    {<< row, col >>}
        \cup (IF _tile_flammability(g[<< row, col >>]) = 0
              THEN {}
              ELSE search_cells(g, h, w, row, col,
                                {t \in TileTypes : _tile_is_incendiary(t)}))

\* The index pairs the function just applied used.
CellsUsed ==
    LET h == RowsOf(ct.g)
        w == ColsOf(ct.g)
    IN  CASE ct.op = "do_gravity" -> do_gravity_cells(ct.g, h, w, ct.row, ct.col, ct.rv)
          [] ct.op = "do_liquid_flow" ->
                 do_liquid_flow_cells(ct.g, h, w, ct.row, ct.col, ct.rv)
          [] ct.op = "do_lift" -> do_lift_cells(ct.g, h, w, ct.row, ct.col, ct.rv)
          [] ct.op = "do_extinguish" -> do_extinguish_cells(ct.g, h, w, ct.row, ct.col)
          [] ct.op = "burn_search" ->
                 _roll_should_tile_burn_cells(ct.g, h, w, ct.row, ct.col)
          [] OTHER -> {}

\* C31: for every sandbox of at least one row and one column and every
\* in-bounds source cell, do_gravity, do_liquid_flow, do_lift, do_extinguish
\* and the burn search index the grid only with 0 <= row < height and
\* 0 <= col < width, on the edges and on 1-wide and 1-high grids as
\* elsewhere; process_sandbox calls them with the in-bounds (row, col) of
\* its scan loops only.
C31_BoundsSafety ==
    ct.op # "none" =>
        /\ << ct.row, ct.col >> \in DOMAIN ct.g
        /\ CellsUsed \subseteq Cells(RowsOf(ct.g), ColsOf(ct.g))

\* C31 witness: do_gravity ran on SAND in the top row of a 1-wide grid of two
\* rows with SAND below: both sides are edges, and the function used the
\* source cell and the cell below only.
C31_GravityInOneWideGrid ==
    /\ ct.op = "do_gravity"
    /\ ct.g = (<< 0, 0 >> :> SAND @@ << 1, 0 >> :> SAND)
    /\ CellsUsed = {<< 0, 0 >>, << 1, 0 >>}

\* ----- settling of SAND -----

\* Largest lifetime the sandbox reaches in the runs that let the SAND settle.
MaxSettleTime == 5

\* place_tile with one of the solid types.
PlaceSolid ==
    \E coords \in Points(height, width), type \in {SAND, WOOD} :
        \E g \in {place_tile(grid, height, width, lifetime, coords, type)} :
            Placement("place", g, coords, type)

\* process_sandbox is entered, as BeginPass, up to the lifetime MaxSettleTime.
BeginSettlePass ==
    /\ pc = "idle"
    /\ lifetime < MaxSettleTime
    /\ pc' = "scan"
    /\ pos' = 0
    /\ handled' = {}
    /\ start' = grid
    /\ lastOp' = "begin"
    /\ lastEffects' = << >>
    /\ UNCHANGED << width, height, lifetime, grid, fresh, placed, ct >>

SettleNext ==
    \/ PlaceSolid
    \/ DeleteTile
    \/ BeginSettlePass
    \/ VisitCell
    \/ EndPass

\* The main loop calls process_sandbox in every frame, and a call runs its
\* scan to the end.
SettleSpec ==
    /\ Init
    /\ [][SettleNext]_vars
    /\ WF_vars(BeginSettlePass)
    /\ WF_vars(VisitCell)
    /\ WF_vars(EndPass)

\* The SAND at p is at rest: it can neither fall nor slide.
SandAtRest(g, p) ==
    /\ ~FallsStraight(g, p[1], p[2])
    /\ \A d \in {-1, 1} : ~DiagonalLegal(g, p[1], p[2], d)

\* Every SAND tile of the grid is at rest.
AllAtRest(g) ==
    \A p \in DOMAIN g : get_tile_type(g[p]) = SAND => SandAtRest(g, p)

\* C32: on a grid of SAND, WOOD and AIR, once the placements have stopped,
\* repeated passes reach a grid in which every SAND is at rest and stay in
\* it; a step of a pass on such a grid leaves the type layout as it is; every
\* step of a pass that moves a SAND moves it one row down; and a single SAND
\* in an otherwise empty grid ends in the bottom row for good.
C32_Settling ==
    /\ <>[]AllAtRest(grid)
    /\ <>[](\A p \in OnlySandAt(grid) : p[1] = height - 1)
    /\ [][lastOp' = "visit" =>
            /\ AllAtRest(grid) => TypeGrid(grid') = TypeGrid(grid)
            /\ \A p \in DOMAIN grid :
                   (get_tile_type(grid[p]) = SAND /\ get_tile_type(grid'[p]) # SAND)
                       => \E d \in {-1, 0, 1} :
                              /\ << p[1] + 1, p[2] + d >> \in DOMAIN grid
                              /\ get_tile_type(grid[<< p[1] + 1, p[2] + d >>]) = AIR
                              /\ get_tile_type(grid'[<< p[1] + 1, p[2] + d >>]) = SAND
        ]_vars

\* C32 witness: a single SAND that two passes ago was in the top row of a
\* column of three rows lies in the bottom row after a pass that left it
\* there.
C32_SandSettledAtBottom ==
    /\ lastOp = "pass"
    /\ height = 3
    /\ lifetime >= 3
    /\ OnlySandAt(start) = OnlySandAt(grid)
    /\ \E p \in OnlySandAt(grid) : p[1] = 2

\* ----- solid tiles stay where they are -----

\* C33: no gravity, flow or lift step swaps with a cell holding SAND or
\* WOOD: in a visit every solid tile outside the visited cell keeps its cell
\* and its byte; a visited WOOD stays in its cell unless it burns; and a
\* visited SAND leaves its cell only by its own gravity step, which puts it
\* in the row below.
C33_SolidsNeverDisplaced ==
    [][lastOp' = "visit" =>
        LET p == Visited'
        IN  /\ \A q \in DOMAIN grid \ {p} : _tile_is_solid(grid[q]) => grid'[q] = grid[q]
            /\ get_tile_type(grid[p]) = WOOD =>
                   \/ get_tile_type(grid'[p]) = WOOD
                   \/ "burn" \in Effects' /\ get_tile_type(grid'[p]) = FIRE
            /\ (get_tile_type(grid[p]) = SAND /\ get_tile_type(grid'[p]) # SAND) =>
                   /\ "gravity" \in Effects'
                   /\ \E d \in {-1, 0, 1} :
                          /\ << p[1] + 1, p[2] + d >> \in DOMAIN grid
                          /\ get_tile_type(grid'[<< p[1] + 1, p[2] + d >>]) = SAND
                          /\ ~_tile_is_solid(grid[<< p[1] + 1, p[2] + d >>])
    ]_vars

\* C33 witness: a gas has just lifted out of a cell that has WOOD directly
\* above it and SAND beside it; both solid tiles are where they were.
C33_GasLiftedPastSolids ==
    /\ lastOp = "visit"
    /\ "lift" \in Effects
    /\ Visited[1] = 1
    /\ get_tile_type(grid[<< 0, Visited[2] >>]) = WOOD
    /\ \E d \in {-1, 1} :
          /\ << 1, Visited[2] + d >> \in DOMAIN grid
          /\ get_tile_type(grid[<< 1, Visited[2] + d >>]) = SAND

\* ----- the byte of an empty cell -----

\* C34 as stated: every cell whose type is AIR holds the byte 0.
C34_AirAlwaysZero ==
    \A c \in DOMAIN grid : _tile_is_empty(grid[c]) => grid[c] = 0

\* The cells of g that hold AIR with its flag bit set.
FlaggedAir(g) == {c \in DOMAIN g : g[c] = 128}

\* C34: every cell whose type is AIR holds the byte 0 or the byte 128 (AIR
\* with its flag bit set).  A cell comes to hold 128 only in a visit whose
\* tile moved: at an odd lifetime the second set_tile_updated of the loop
\* body flags the AIR left in the visited cell, so the visited cell holds
\* 128 and the number of such cells grows by at most one; a swap only
\* carries an existing 128 to another cell, so at an even lifetime their
\* number does not grow.  No placement and no other step produces the byte
\* 128.
C34_AirZeroOrFlagged ==
    /\ [](\A c \in DOMAIN grid : _tile_is_empty(grid[c]) => grid[c] \in {0, 128})
    /\ [][(FlaggedAir(grid') \ FlaggedAir(grid) # {}) =>
              /\ lastOp' = "visit"
              /\ Effects' \cap {"gravity", "flow", "lift"} # {}
              /\ lifetime % 2 = 1 =>
                     /\ Visited' \in FlaggedAir(grid')
                     /\ Cardinality(FlaggedAir(grid')) <= Cardinality(FlaggedAir(grid)) + 1
              /\ lifetime % 2 = 0 =>
                     Cardinality(FlaggedAir(grid')) <= Cardinality(FlaggedAir(grid))
       ]_vars

\* C34 witness: at an even lifetime, after a whole pass, an AIR cell still
\* holds the byte 128 it was given at the odd lifetime before.
C34_FlaggedAirAtEvenLifetime ==
    /\ lastOp = "pass"
    /\ lifetime = 2
    /\ \E c \in DOMAIN grid : grid[c] = 128

\* ----- tile encoding -----

\* C35: in every reachable state every cell's reserved bits 4-6 are 0 and
\* its type id (bits 0-3) is a defined tile type, below NUM_TILE_TYPES.
C35_TileEncoding ==
    \A c \in DOMAIN grid :
        /\ (grid[c] \div 16) % 8 = 0
        /\ get_tile_type(grid[c]) \in TileTypes
        /\ get_tile_type(grid[c]) < NUM_TILE_TYPES

\* C35 witness: a FIRE has just been extinguished at an odd lifetime, and
\* the grid holds the STEAM that create_tile made with its flag bit set.
C35_FlaggedSteamCreated ==
    /\ lastOp = "visit"
    /\ "extinguish" \in Effects
    /\ \E c \in DOMAIN grid : grid[c] = 128 + STEAM

\* ----- the frame of the placement operations -----

\* The cells on which the grids g and g2 differ.
Changed(g, g2) == {c \in DOMAIN g : g2[c] # g[c]}

\* C36: on every reachable grid, place_tile, delete_tile and replace_tile on
\* an in-bounds point return a grid over the same cells that differs from
\* the old one in at most that point, and when it differs the point holds
\* the requested type (AIR for delete_tile); and a placement step leaves the
\* lifetime, the width and the height as they were and changes at most one
\* cell.
C36_PlacementFrame ==
    /\ [](\A p \in DOMAIN grid, type \in PlaceTypes :
             /\ \A r \in {place_tile(grid, height, width, lifetime, p, type)} :
                    /\ DOMAIN r = DOMAIN grid
                    /\ Changed(grid, r) \subseteq {p}
                    /\ r # grid => get_tile_type(r[p]) = type
             /\ \A r \in {delete_tile(grid, height, width, p)} :
                    /\ DOMAIN r = DOMAIN grid
                    /\ Changed(grid, r) \subseteq {p}
                    /\ r # grid => get_tile_type(r[p]) = AIR
             /\ \A r \in {replace_tile(grid, height, width, lifetime, p, type)} :
                    /\ DOMAIN r = DOMAIN grid
                    /\ Changed(grid, r) \subseteq {p}
                    /\ r # grid => get_tile_type(r[p]) = type)
    /\ [][lastOp' \in {"placed", "noop"} =>
              /\ lifetime' = lifetime
              /\ width' = width
              /\ height' = height
              /\ DOMAIN grid' = DOMAIN grid
              /\ Cardinality(Changed(grid, grid')) <= 1
              /\ lastOp' = "placed" <=> Cardinality(Changed(grid, grid')) = 1
       ]_vars

\* C36 witness: a placement has just taken effect at lifetime 1 on a grid
\* of three tiles, one of them still carrying the flag of lifetime 0 and
\* lying in the row of another tile.
C36_PlacedAmongOlderTiles ==
    /\ lastOp = "placed"
    /\ lifetime = 1
    /\ CountTiles(grid) = 3
    /\ \E p, q \in DOMAIN grid :
          /\ p # q
          /\ p[1] = q[1]
          /\ ~_tile_is_empty(grid[p])
          /\ ~_tile_is_empty(grid[q])
          /\ get_updated_flag(grid[p]) = 0
          /\ get_updated_flag(grid[q]) = 1

\* ----- the mouse of the input layer (gui.c) -----

\* The largest amount one mouse wheel event scrolls by, in either direction.
MaxScroll == 2

\* event->y of a mouse wheel event; 0 is a wheel event without vertical motion.
ScrollValues == (-MaxScroll) .. MaxScroll

\* The keys of the keyboard events: the number keys, left-ctrl, and one key
\* the switch statements do not handle.
Keycodes == {"SDLK_1", "SDLK_2", "SDLK_3", "SDLK_4", "SDLK_5", "SDLK_6",
             "SDLK_LCTRL", "SDLK_a"}

\* a % b of C for b > 0: the remainder has the sign of a.
c_rem(a, b) == IF a >= 0 THEN a % b ELSE -((-a) % b)

\* create_mouse(): calloc leaves target_radius 0 and is_holding_lctrl false.
create_mouse ==
    [selected_type |-> SAND, target_radius |-> 0, is_holding_lctrl |-> FALSE]

\* A switch_selected_type without the check of the new type.
switch_selected_type_unchecked(mouse, new_type) ==
    [mouse EXCEPT !.selected_type = new_type]

switch_selected_type(mouse, new_type) ==
    IF new_type > NUM_TILE_TYPES - 1
    THEN mouse
    ELSE [mouse EXCEPT !.selected_type = new_type]

_do_mouse_wheel_motion(mouse, vertical_scroll) ==
    LET scroll_sign == IF vertical_scroll > 0 THEN 1 ELSE -1
    IN  IF mouse.is_holding_lctrl
        THEN [mouse EXCEPT !.target_radius =
                  clamp(mouse.target_radius + scroll_sign, 0, MAX_TARGET_RADIUS)]
        ELSE LET new_type == c_rem(mouse.selected_type + scroll_sign, NUM_TILE_TYPES)
             IN  switch_selected_type(mouse,
                     IF new_type = AIR
                     THEN (IF vertical_scroll > 0 THEN SAND ELSE NUM_TILE_TYPES - 1)
                     ELSE new_type)

_do_keyboard_press(mouse, keycode) ==
    CASE keycode = "SDLK_1" -> switch_selected_type(mouse, SAND)
      [] keycode = "SDLK_2" -> switch_selected_type(mouse, WATER)
      [] keycode = "SDLK_3" -> switch_selected_type(mouse, WOOD)
      [] keycode = "SDLK_4" -> switch_selected_type(mouse, STEAM)
      [] keycode = "SDLK_5" -> switch_selected_type(mouse, FIRE)
      [] keycode = "SDLK_6" -> switch_selected_type(mouse, FUEL)
      [] keycode = "SDLK_LCTRL" -> [mouse EXCEPT !.is_holding_lctrl = TRUE]
      [] OTHER -> mouse

_do_keyboard_release(mouse, keycode) ==
    CASE keycode = "SDLK_LCTRL" -> [mouse EXCEPT !.is_holding_lctrl = FALSE]
      [] OTHER -> mouse

\* The mouse an event record holds.
MouseOf(c) ==
    [selected_type |-> c.selected_type, target_radius |-> c.target_radius,
     is_holding_lctrl |-> c.is_holding_lctrl]

\* The record of an event: the event, the mouse before it and the mouse
\* after it.
MouseEvent(op, y, key, before, after) ==
    [op |-> op, y |-> y, key |-> key,
     selected_type |-> after.selected_type, target_radius |-> after.target_radius,
     is_holding_lctrl |-> after.is_holding_lctrl,
     prev_type |-> before.selected_type, prev_radius |-> before.target_radius,
     prev_lctrl |-> before.is_holding_lctrl]

MouseInit ==
    /\ width = 1
    /\ height = 1
    /\ lifetime = 0
    /\ grid = [c \in Cells(1, 1) |-> AIR]
    /\ pc = "idle"
    /\ pos = 0
    /\ handled = {}
    /\ fresh = {}
    /\ start = grid
    /\ placed = << >>
    /\ lastOp = "create"
    /\ lastEffects = << >>
    /\ ct = MouseEvent("create_mouse", 0, "", create_mouse, create_mouse)

\* handle_input on an SDL_MOUSEWHEEL event.
MouseWheel ==
    /\ \E y \in ScrollValues :
           ct' = MouseEvent("wheel", y, "", MouseOf(ct),
                            _do_mouse_wheel_motion(MouseOf(ct), y))
    /\ UNCHANGED << width, height, lifetime, grid, pc, pos, handled, fresh, start,
                    placed, lastOp, lastEffects >>

\* handle_input on an SDL_KEYDOWN event.
KeyPress ==
    /\ \E key \in Keycodes :
           ct' = MouseEvent("press", 0, key, MouseOf(ct),
                            _do_keyboard_press(MouseOf(ct), key))
    /\ UNCHANGED << width, height, lifetime, grid, pc, pos, handled, fresh, start,
                    placed, lastOp, lastEffects >>

\* handle_input on an SDL_KEYUP event.
KeyRelease ==
    /\ \E key \in Keycodes :
           ct' = MouseEvent("release", 0, key, MouseOf(ct),
                            _do_keyboard_release(MouseOf(ct), key))
    /\ UNCHANGED << width, height, lifetime, grid, pc, pos, handled, fresh, start,
                    placed, lastOp, lastEffects >>

MouseNext ==
    \/ MouseWheel
    \/ KeyPress
    \/ KeyRelease

MouseSpec == MouseInit /\ [][MouseNext]_vars

\* C37: the selected type is never AIR and always in SAND .. NUM_TILE_TYPES - 1.
\* A wheel event without left-ctrl held moves it one type up (scroll above 0)
\* or one type down (otherwise), wrapping from the last type to SAND and
\* from SAND to the last type; a wheel event with left-ctrl held, a key
\* release and a press of a key other than 1-5 leave it alone; a press of
\* the number key n in 1-5 selects the type n.
C37_SelectedType ==
    /\ [](ct.selected_type \in SAND .. (NUM_TILE_TYPES - 1))
    /\ [][/\ (ct'.op = "wheel" /\ ~ct.is_holding_lctrl /\ ct'.y > 0) =>
                 ct'.selected_type = (IF ct.selected_type = NUM_TILE_TYPES - 1
                                      THEN SAND ELSE ct.selected_type + 1)
          /\ (ct'.op = "wheel" /\ ~ct.is_holding_lctrl /\ ct'.y <= 0) =>
                 ct'.selected_type = (IF ct.selected_type = SAND
                                      THEN NUM_TILE_TYPES - 1 ELSE ct.selected_type - 1)
          /\ (ct'.op = "wheel" /\ ct.is_holding_lctrl) =>
                 ct'.selected_type = ct.selected_type
          /\ ct'.op = "release" => ct'.selected_type = ct.selected_type
          /\ ct'.op = "press" =>
                 ct'.selected_type =
                     (CASE ct'.key = "SDLK_1" -> SAND
                        [] ct'.key = "SDLK_2" -> WATER
                        [] ct'.key = "SDLK_3" -> WOOD
                        [] ct'.key = "SDLK_4" -> STEAM
                        [] ct'.key = "SDLK_5" -> FIRE
                        [] OTHER -> ct.selected_type)
       ]_vars

\* C37 witness: a scroll up without left-ctrl held has just wrapped the
\* selection from the last type to SAND.
C37_WrappedToSand ==
    /\ ct.op = "wheel"
    /\ ct.y > 0
    /\ ~ct.prev_lctrl
    /\ ct.prev_type = NUM_TILE_TYPES - 1
    /\ ct.selected_type = SAND

====
